---- MODULE Spec2Model ----
(***************************************************************************)
(* State-machine model of the projectile server of tanktaktix              *)
(* (src/server/src/index.ts, lines 1217-2026): the players and rooms       *)
(* registries, the websocket message handlers, the close handler and the   *)
(* fixed-interval tick.                                                    *)
(*                                                                         *)
(* Conventions.                                                            *)
(*  - A nullable field (string | null, number | null, Vector2 | null) is a *)
(*    sequence of length 0 (null / undefined) or 1 (the value).            *)
(*  - The rooms Map is a sequence of room records in insertion order; a    *)
(*    Set<string> of player ids is a duplicate-free sequence in insertion  *)
(*    order (JavaScript Maps and Sets iterate in insertion order).         *)
(*  - Positions are integer pixels.  The inputs are chosen so that the     *)
(*    floating-point results of the code are integers (axis-aligned unit   *)
(*    vectors, clock steps that are multiples of TICK_MS); the one place   *)
(*    where a square root is not exact rounds to the nearest pixel.        *)
(*  - sent holds the messages the last operation sent, in order; ev        *)
(*    describes the last operation (history variables).                    *)
(***************************************************************************)
EXTENDS Integers, Sequences, FiniteSets, TLC

VARIABLES
    players,      \* Map<string, PlayerRuntime>: id -> record, for live connections
    rooms,        \* Map<string, Room> in insertion order
    now,          \* the wall clock, Date.now(), in ms
    lastTickAt,   \* the tick's lastTickAt
    ticks,        \* how many ticks ran so far
    conns,        \* how many connections were accepted so far (fresh player ids)
    gens,         \* how many room ids newId() generated so far
    sent,         \* messages sent by the last operation
    ev,           \* the last operation
    lobby,        \* the team lobby server: its connections, its rooms, its last messages
    hitscan,      \* the hitscan server: its players, its rooms, its clock, its last messages
    cooldown      \* the cooldown server: its players, its rooms, its last messages

vars == <<players, rooms, now, lastTickAt, ticks, conns, gens, sent, ev, lobby, hitscan, cooldown>>

-----------------------------------------------------------------------------
(* Program constants.                                                      *)

TICK_MS == 50
MAP_W == 900
MAP_H == 520
MOVE_SPEED == 6
MOVE_COOLDOWN_MS == 0
SHOOT_COOLDOWN_MS == 300
RESPAWN_MS == 1500
HIT_RADIUS == 18
BULLET_SPEED == 220
BULLET_RADIUS == 4
BULLET_RANGE == 600
BULLET_DAMAGE == 20
\* Math.ceil((BULLET_RANGE / BULLET_SPEED) * 1000)
BULLET_TTL_MS == ((BULLET_RANGE * 1000) + BULLET_SPEED - 1) \div BULLET_SPEED

FULL_HP == 100
FULL_AMMO == 20
MIN_PLAYERS == 2
MAX_PLAYERS == 16
DEFAULT_MAX_PLAYERS == 4
MIN_TIME_LIMIT == 30
MAX_TIME_LIMIT == 3600
DEFAULT_TIME_LIMIT == 240
SPAWN_MIN == 150
SPAWN_SPAN == 200
DEATH_PENALTY == 5

-----------------------------------------------------------------------------
(* Bounds of the model.                                                    *)

MaxTicks == 6       \* ticks in one behaviour of the combat specification
MaxMatchTicks == 2  \* ticks in one behaviour of the match specification
MaxMatchBullets == 1  \* bullets in flight in a room of the match specification
MaxMoveTicks == 15  \* ticks in one behaviour of the movement specification
MaxHitTicks == 3  \* ticks in one behaviour of the specification of the hits
MaxCrowdTicks == 6  \* ticks in one behaviour of the specification of the crowd
MaxEdgeTicks == 14  \* ticks in one behaviour of the specification of the wall
MaxClickTicks == 4  \* ticks in one behaviour of the specification of the click move
MaxShotTicks == 4  \* ticks in one behaviour of the specification of the shots
MaxBulletTicks == 7  \* ticks in one behaviour of the specification of the flight
StartMs == 1000     \* Date.now() when the server starts

-----------------------------------------------------------------------------
(* Nullable values and insertion-ordered collections.                      *)

None == <<>>
Some(v) == <<v>>
IsSome(o) == Len(o) = 1
Val(o) == o[1]

SeqToSet(s) == {s[i] : i \in DOMAIN s}

\* Set.prototype.add
SetAdd(s, e) == IF e \in SeqToSet(s) THEN s ELSE Append(s, e)

\* Set.prototype.delete
SetDelete(s, e) == SelectSeq(s, LAMBDA z : z # e)

Max(a, b) == IF a >= b THEN a ELSE b
Min(a, b) == IF a <= b THEN a ELSE b

clamp(n, lo, hi) == Max(lo, Min(hi, n))

\* pickNumber takes any finite number of the payload, fractions too: maxPlayers
\* is kept in halves of a player, so that 2.5 is the number 5
Halves(n) == 2 * n

-----------------------------------------------------------------------------
(* Strings of the payloads.  String.prototype.trim() on the strings the    *)
(* model feeds in: padded variants lose their padding, a blank string      *)
(* becomes empty.                                                          *)

trim(s) ==
    CASE s = " "    -> ""
      [] s = " r1 " -> "r1"
      [] s = " pw"  -> "pw"
      [] OTHER      -> s

\* newId(): crypto.randomUUID(), a fresh id on every call: the ids it hands to
\* connections and to rooms created without a roomId, in the order of the calls
PlayerIdPool == << "p1", "p2", "p3" >>
RoomIdPool == << "g1" >>

-----------------------------------------------------------------------------
(* The rooms Map.                                                          *)

RoomIds(rs) == {rs[i].id : i \in DOMAIN rs}
HasRoom(rs, id) == id \in RoomIds(rs)
RoomIndex(rs, id) == CHOOSE i \in DOMAIN rs : rs[i].id = id
GetRoom(rs, id) == rs[RoomIndex(rs, id)]

\* Map.prototype.set: an existing key keeps its place, a new key goes last
MapSet(rs, room) ==
    IF HasRoom(rs, room.id)
    THEN [rs EXCEPT ![RoomIndex(rs, room.id)] = room]
    ELSE Append(rs, room)

\* a variant of Map.prototype.delete that deletes nothing
MapDelete_Keep(rs, id) == rs

\* Map.prototype.delete
MapDelete(rs, id) == SelectSeq(rs, LAMBDA r : r.id # id)

-----------------------------------------------------------------------------
(* Views and messages.                                                     *)

toRoomSummary(r) ==
    [ id |-> r.id, passwordProtected |-> r.passwordProtected,
      maxPlayers |-> r.maxPlayers, timeLimitSec |-> r.timeLimitSec,
      createdAt |-> r.createdAt, endsAt |-> r.endsAt, ended |-> r.ended,
      players |-> r.playerIds, playerCount |-> Len(r.playerIds) ]

\* Array.prototype.sort((a, b) => b.createdAt - a.createdAt): stable, newest first
RECURSIVE SortNewestFirst(_)
InsertNewestFirst(sorted, e) ==
    LET before == SelectSeq(sorted, LAMBDA z : z.createdAt >= e.createdAt)
        after  == SelectSeq(sorted, LAMBDA z : z.createdAt < e.createdAt)
    IN before \o <<e>> \o after
SortNewestFirst(list) ==
    IF list = <<>> THEN <<>>
    ELSE InsertNewestFirst(SortNewestFirst(SubSeq(list, 1, Len(list) - 1)),
                           list[Len(list)])

lobbyStatePayload(rs) ==
    [ rooms |-> SortNewestFirst([i \in DOMAIN rs |-> toRoomSummary(rs[i])]) ]

toPlayerPublic(id, p) ==
    [ id |-> id, roomId |-> p.roomId, x |-> p.x, y |-> p.y,
      hp |-> p.hp, ammo |-> p.ammo, score |-> p.score, kills |-> p.kills,
      deaths |-> p.deaths, respawnAt |-> p.respawnAt ]

toBulletPublic(b) ==
    [ shooterId |-> b.shooterId, x |-> b.x, y |-> b.y, radius |-> b.radius ]

\* the members of a room that the players registry resolves
ResolvedMembers(ps, room) == SelectSeq(room.playerIds, LAMBDA pid : pid \in DOMAIN ps)

roomStatePayload(ps, rs, roomId, t) ==
    IF ~HasRoom(rs, roomId)
    THEN [ roomId |-> roomId, timeLeftSec |-> 0, players |-> <<>>, bullets |-> <<>> ]
    ELSE LET room == GetRoom(rs, roomId)
             ms   == room.endsAt - t
             mem  == ResolvedMembers(ps, room)
         IN [ roomId |-> room.id,
              \* Math.max(0, Math.ceil((room.endsAt - nowMs()) / 1000))
              timeLeftSec |-> IF ms <= 0 THEN 0 ELSE (ms + 999) \div 1000,
              players |-> [i \in DOMAIN mem |-> toPlayerPublic(mem[i], ps[mem[i]])],
              bullets |-> [i \in DOMAIN room.bullets |-> toBulletPublic(room.bullets[i])] ]

Msg(to, type, payload) == [ to |-> to, type |-> type, payload |-> payload ]

\* The program state the handlers thread through: the two registries and the
\* messages sent so far in this operation.
Store(ps, rs, out) == [ players |-> ps, rooms |-> rs, sent |-> out ]

\* send(ws, msg) to one live connection
send(S, to, type, payload) ==
    [S EXCEPT !.sent = Append(@, Msg(to, type, payload))]

\* the lobby players, in the iteration order of the players Map (connection order)
LobbyPlayers(ps) ==
    SelectSeq(PlayerIdPool, LAMBDA pid : pid \in DOMAIN ps /\ ps[pid].roomId = None)

broadcastLobby(S) ==
    LET payload == lobbyStatePayload(S.rooms)
        to      == LobbyPlayers(S.players)
    IN [S EXCEPT !.sent = @ \o [i \in DOMAIN to |-> Msg(to[i], "lobby", payload)]]

broadcastRoom(S, roomId, type, payload) ==
    IF ~HasRoom(S.rooms, roomId) THEN S
    ELSE LET to == ResolvedMembers(S.players, GetRoom(S.rooms, roomId))
         IN [S EXCEPT !.sent = @ \o [i \in DOMAIN to |-> Msg(to[i], type, payload)]]

sendRoomState(S, roomId, t) ==
    broadcastRoom(S, roomId, "room", roomStatePayload(S.players, S.rooms, roomId, t))

-----------------------------------------------------------------------------
(* Room membership.                                                        *)

Vec(x, y) == [ x |-> x, y |-> y ]

\* the PlayerRuntime a new connection gets
NewPlayer ==
    [ x |-> SPAWN_MIN, y |-> SPAWN_MIN,
      hp |-> FULL_HP, ammo |-> FULL_AMMO, score |-> 0, kills |-> 0, deaths |-> 0,
      roomId |-> None,
      aimDir |-> Vec(1, 0), pendingMove |-> None, pendingTarget |-> None,
      lastMoveAt |-> 0, lastShootAt |-> 0,
      respawnAt |-> None ]

\* a variant that leaves the member in the set
RemoveMember_Keep(room, pid) == room

RemoveMember(room, pid) == [room EXCEPT !.playerIds = SetDelete(@, pid)]

\* a variant that keeps a room whose last member has gone
DropFromRoom_KeepEmpty(rs, roomId, pid) ==
    IF ~HasRoom(rs, roomId) THEN rs
    ELSE MapSet(rs, [GetRoom(rs, roomId) EXCEPT !.playerIds = SetDelete(@, pid)])

\* old.playerIds.delete(p.id); if (old.playerIds.size === 0) rooms.delete(old.id)
DropFromRoom(rs, roomId, pid) ==
    IF ~HasRoom(rs, roomId) THEN rs
    ELSE LET old == RemoveMember(GetRoom(rs, roomId), pid)
         IN IF Len(old.playerIds) = 0
            THEN MapDelete(rs, roomId)
            ELSE MapSet(rs, old)

\* a variant that does not tell the room that the player has gone
detachFromRoom_Silent(S, pid, t) ==
    LET p == S.players[pid]
    IN IF p.roomId = None THEN S
       ELSE Store([S.players EXCEPT ![pid].roomId = None,
                                    ![pid].pendingMove = None,
                                    ![pid].pendingTarget = None],
                  DropFromRoom(S.rooms, Val(p.roomId), pid), S.sent)

detachFromRoom(S, pid, t) ==
    LET p == S.players[pid]
    IN IF p.roomId = None THEN S
       ELSE LET oldRoomId == Val(p.roomId)
                rs1 == DropFromRoom(S.rooms, oldRoomId, pid)
                ps1 == [S.players EXCEPT ![pid].roomId = None,
                                         ![pid].pendingMove = None,
                                         ![pid].pendingTarget = None]
            IN sendRoomState(Store(ps1, rs1, S.sent), oldRoomId, t)

joinLobby(S, pid, t) ==
    LET S1 == detachFromRoom(S, pid, t)
        S2 == send(S1, pid, "lobby", lobbyStatePayload(S1.rooms))
    IN broadcastLobby(S2)

\* a variant that lets every password pass
PasswordMismatch_Never(room, password) == FALSE

\* room.passwordProtected && room.password !== password
PasswordMismatch(room, password) ==
    room.passwordProtected /\ room.password # password

\* a variant that lets one member more in
RoomIsFull_OffByOne(room) == Halves(Len(room.playerIds)) > room.maxPlayers

RoomIsFull(room) == Halves(Len(room.playerIds)) >= room.maxPlayers

\* the spawn of joinRoom: position, hp, ammo, respawnAt and movement intent reset
SpawnPlayer(p, roomId, spawn) ==
    [p EXCEPT !.roomId = Some(roomId),
              !.x = spawn.x, !.y = spawn.y,
              !.hp = FULL_HP, !.ammo = FULL_AMMO, !.respawnAt = None,
              !.pendingMove = None, !.pendingTarget = None]

\* room.playerIds.add(p.id) on the Room object fetched at the top of joinRoom:
\* it shows in the registry only while the registry still holds that object
AddMember(rs, roomId, pid) ==
    IF ~HasRoom(rs, roomId) THEN rs
    ELSE MapSet(rs, [GetRoom(rs, roomId) EXCEPT !.playerIds = SetAdd(@, pid)])

\* a variant that does not detach the player from its prior room
joinRoom_NoDetach(S, pid, roomId, password, spawn, t) ==
    IF ~HasRoom(S.rooms, roomId)
    THEN send(S, pid, "error", [ message |-> "Room not found." ])
    ELSE IF PasswordMismatch(GetRoom(S.rooms, roomId), password)
    THEN send(S, pid, "error", [ message |-> "Invalid password." ])
    ELSE IF Halves(Len(GetRoom(S.rooms, roomId).playerIds))
               >= GetRoom(S.rooms, roomId).maxPlayers
    THEN send(S, pid, "error", [ message |-> "Room is full." ])
    ELSE LET ps2 == [S.players EXCEPT ![pid] = SpawnPlayer(@, roomId, spawn)]
             rs2 == AddMember(S.rooms, roomId, pid)
             S2  == sendRoomState(Store(ps2, rs2, S.sent), roomId, t)
         IN broadcastLobby(S2)

joinRoom(S, pid, roomId, password, spawn, t) ==
    IF ~HasRoom(S.rooms, roomId)
    THEN send(S, pid, "error", [ message |-> "Room not found." ])
    ELSE IF PasswordMismatch(GetRoom(S.rooms, roomId), password)
    THEN send(S, pid, "error", [ message |-> "Invalid password." ])
    ELSE IF RoomIsFull(GetRoom(S.rooms, roomId))
    THEN send(S, pid, "error", [ message |-> "Room is full." ])
    ELSE LET S1  == detachFromRoom(S, pid, t)
             ps2 == [S1.players EXCEPT ![pid] = SpawnPlayer(@, roomId, spawn)]
             rs2 == AddMember(S1.rooms, roomId, pid)
             S2  == sendRoomState(Store(ps2, rs2, S1.sent), roomId, t)
         IN broadcastLobby(S2)

\* the Room a createRoom message builds
NewRoom(roomId, maxPlayers, timeLimitSec, password, t) ==
    LET passwordProtected == trim(password) # ""
    IN [ id |-> roomId,
         passwordProtected |-> passwordProtected,
         password |-> IF passwordProtected THEN Some(password) ELSE None,
         maxPlayers |-> clamp(maxPlayers, Halves(MIN_PLAYERS), Halves(MAX_PLAYERS)),
         timeLimitSec |-> clamp(timeLimitSec, MIN_TIME_LIMIT, MAX_TIME_LIMIT),
         createdAt |-> t,
         endsAt |-> t + clamp(timeLimitSec, MIN_TIME_LIMIT, MAX_TIME_LIMIT) * 1000,
         ended |-> FALSE,
         playerIds |-> <<>>,
         bullets |-> <<>> ]

createRoom(S, pid, roomId, maxPlayers, timeLimitSec, password, spawn, t) ==
    LET room == NewRoom(roomId, maxPlayers, timeLimitSec, password, t)
        S1   == broadcastLobby([S EXCEPT !.rooms = MapSet(@, room)])
    IN joinRoom(S1, pid, roomId, room.password, spawn, t)

-----------------------------------------------------------------------------
(* The operations: connection, the message handlers, close.                *)

Here == Store(players, rooms, <<>>)

Commit(S) ==
    /\ players' = S.players
    /\ rooms' = S.rooms
    /\ sent' = S.sent

\* the rooms whose member set holds pid
MemberRooms(rs, pid) == {rs[i].id : i \in {j \in DOMAIN rs : pid \in SeqToSet(rs[j].playerIds)}}

\* ev: the operation, the connection it came from, the rooms whose member set
\* lost that connection in the operation, and what a tick did (the hits it
\* applied, the rooms it broadcast a leaderboard to, the players it respawned,
\* the bullets it dropped)
Event(op, who) ==
    [ op |-> op, who |-> who, left |-> {}, hits |-> <<>>, boards |-> <<>>,
      respawned |-> {}, gone |-> <<>> ]

\* the event of a handler that took the registries from Here to S
HandlerEvent(op, who, S) ==
    [ Event(op, who) EXCEPT !.left = MemberRooms(rooms, who) \ MemberRooms(S.rooms, who) ]

\* wss.on("connection"); limit bounds the connections of one behaviour
Connect(limit) ==
    /\ conns < limit
    /\ LET pid == PlayerIdPool[conns + 1]
           ps1 == [q \in DOMAIN players \cup {pid} |->
                      IF q = pid THEN NewPlayer ELSE players[q]]
           S1  == send(Store(ps1, rooms, <<>>), pid, "welcome", [ id |-> pid ])
       IN /\ Commit(send(S1, pid, "lobby", lobbyStatePayload(rooms)))
          /\ ev' = Event("connect", pid)
    /\ conns' = conns + 1
    /\ UNCHANGED <<now, lastTickAt, ticks, gens, lobby, hitscan, cooldown>>

\* socket.on("close")
Close(pid) ==
    /\ pid \in DOMAIN players
    /\ LET S1  == detachFromRoom(Here, pid, now)
           ps2 == [q \in DOMAIN players \ {pid} |-> S1.players[q]]
       IN /\ Commit(broadcastLobby(Store(ps2, S1.rooms, S1.sent)))
          /\ ev' = HandlerEvent("close", pid, S1)
    /\ UNCHANGED <<now, lastTickAt, ticks, conns, gens, lobby, hitscan, cooldown>>

\* case "requestLobby", case "leaveRoom", case "leave": all three run joinLobby(player)
JoinLobby(pid) ==
    /\ pid \in DOMAIN players
    /\ Commit(joinLobby(Here, pid, now))
    /\ ev' = HandlerEvent("joinLobby", pid, joinLobby(Here, pid, now))
    /\ UNCHANGED <<now, lastTickAt, ticks, conns, gens, lobby, hitscan, cooldown>>

\* case "createRoom": payload roomId, maxPlayers, timeLimitSec, password
CreateRoom(pid, roomIdRaw, maxPlayers, timeLimitSec, password, spawn) ==
    /\ pid \in DOMAIN players
    /\ trim(roomIdRaw) = "" => gens < Len(RoomIdPool)
    /\ LET roomId == IF trim(roomIdRaw) # "" THEN trim(roomIdRaw) ELSE RoomIdPool[gens + 1]
           S1 == createRoom(Here, pid, roomId, maxPlayers, timeLimitSec,
                            password, spawn, now)
       IN /\ Commit(S1)
          /\ ev' = HandlerEvent("createRoom", pid, S1)
    /\ gens' = IF trim(roomIdRaw) = "" THEN gens + 1 ELSE gens
    /\ UNCHANGED <<now, lastTickAt, ticks, conns, lobby, hitscan, cooldown>>

\* case "joinRoom": payload roomId, password
JoinRoom(pid, roomIdRaw, passwordRaw, spawn) ==
    /\ pid \in DOMAIN players
    /\ LET roomId   == trim(roomIdRaw)
           password == IF trim(passwordRaw) = "" THEN None ELSE Some(trim(passwordRaw))
           S1 == IF roomId # ""
                 THEN joinRoom(Here, pid, roomId, password, spawn, now)
                 ELSE Here
       IN /\ Commit(S1)
          /\ ev' = HandlerEvent("joinRoom", pid, S1)
    /\ UNCHANGED <<now, lastTickAt, ticks, conns, gens, lobby, hitscan, cooldown>>

-----------------------------------------------------------------------------
(* Vector math.                                                            *)

Abs(n) == IF n < 0 THEN -n ELSE n

\* n / d rounded to the nearest integer (d > 0), halves away from zero
RoundDiv(n, d) ==
    IF n >= 0 THEN (2 * n + d) \div (2 * d) ELSE -((2 * (-n) + d) \div (2 * d))

\* Math.sqrt on a non-negative integer, rounded to the nearest integer
\* (exact on perfect squares)
RECURSIVE FloorSqrt(_, _, _)
FloorSqrt(n, lo, hi) ==
    IF lo >= hi THEN lo
    ELSE LET mid == (lo + hi + 1) \div 2
         IN IF mid * mid <= n THEN FloorSqrt(n, mid, hi) ELSE FloorSqrt(n, lo, mid - 1)
Sqrt(n) ==
    LET r == FloorSqrt(n, 0, MAP_W + MAP_H + 1)
    IN IF n - r * r <= r THEN r ELSE r + 1

Dot(a, b) == a.x * b.x + a.y * b.y

\* Math.hypot(v.x, v.y)
len(v) == Sqrt(Dot(v, v))

\* exact for the axis-aligned vectors the model feeds in
norm(v) ==
    LET l == len(v)
    IN IF l = 0 THEN Vec(0, 0) ELSE Vec(RoundDiv(v.x, l), RoundDiv(v.y, l))

\* distPointToSegment(a, b, p) <= r, decided on the squares (no rounding):
\* with t = clamp(ap.ab / ab2, 0, 1), the closest point is a, b or the foot
distPointToSegmentWithin(a, b, p, r) ==
    LET ab  == Vec(b.x - a.x, b.y - a.y)
        ap  == Vec(p.x - a.x, p.y - a.y)
        bp  == Vec(p.x - b.x, p.y - b.y)
        ab2 == Dot(ab, ab)
        d   == Dot(ap, ab)
    IN IF ab2 = 0 THEN Dot(ap, ap) <= r * r
       ELSE IF d <= 0 THEN Dot(ap, ap) <= r * r
       ELSE IF d >= ab2 THEN Dot(bp, bp) <= r * r
       ELSE Dot(ap, ap) * ab2 - d * d <= r * r * ab2

-----------------------------------------------------------------------------
(* Input handlers.                                                         *)

setMoveDir(p, dir) ==
    LET d == norm(dir)
    IN IF len(d) = 0 THEN [p EXCEPT !.pendingMove = None]
       ELSE [p EXCEPT !.pendingMove = Some(d)]

stopMove(p) == [p EXCEPT !.pendingMove = None, !.pendingTarget = None]

setMoveTarget(p, target) ==
    [p EXCEPT !.pendingTarget =
        Some(Vec(clamp(target.x, 0, MAP_W), clamp(target.y, 0, MAP_H)))]

setAimDir(p, dir) ==
    LET d == norm(dir)
    IN IF len(d) = 0 THEN p ELSE [p EXCEPT !.aimDir = d]

\* a variant whose kill leaves the target its ammo
applyBulletHit_KeepAmmo(ps, shooterId, targetId, t) ==
    LET hp1 == Max(0, ps[targetId].hp - BULLET_DAMAGE)
    IN IF hp1 # 0
       THEN [ps EXCEPT ![targetId].hp = hp1]
       ELSE [ps EXCEPT ![targetId].hp = hp1,
                       ![shooterId].kills = @ + 1,
                       ![shooterId].score = @ + 1,
                       ![targetId].deaths = @ + 1,
                       ![targetId].score = @ - DEATH_PENALTY,
                       ![targetId].respawnAt = Some(t + RESPAWN_MS)]

\* a variant whose kill costs the target no score
applyBulletHit_NoPenalty(ps, shooterId, targetId, t) ==
    LET hp1 == Max(0, ps[targetId].hp - BULLET_DAMAGE)
    IN IF hp1 # 0
       THEN [ps EXCEPT ![targetId].hp = hp1]
       ELSE [ps EXCEPT ![targetId].hp = hp1,
                       ![shooterId].kills = @ + 1,
                       ![shooterId].score = @ + 1,
                       ![targetId].deaths = @ + 1,
                       ![targetId].respawnAt = Some(t + RESPAWN_MS),
                       ![targetId].ammo = 0]

\* a variant whose hit takes half the damage
applyBulletHit_HalfDamage(ps, shooterId, targetId, t) ==
    LET hp1 == Max(0, ps[targetId].hp - BULLET_DAMAGE \div 2)
    IN IF hp1 # 0
       THEN [ps EXCEPT ![targetId].hp = hp1]
       ELSE [ps EXCEPT ![targetId].hp = hp1,
                       ![shooterId].kills = @ + 1,
                       ![shooterId].score = @ + 1,
                       ![targetId].deaths = @ + 1,
                       ![targetId].score = @ - DEATH_PENALTY,
                       ![targetId].respawnAt = Some(t + RESPAWN_MS),
                       ![targetId].ammo = 0]

applyBulletHit(ps, shooterId, targetId, t) ==
    LET hp1 == Max(0, ps[targetId].hp - BULLET_DAMAGE)
    IN IF hp1 # 0
       THEN [ps EXCEPT ![targetId].hp = hp1]
       ELSE [ps EXCEPT ![targetId].hp = hp1,
                       ![shooterId].kills = @ + 1,
                       ![shooterId].score = @ + 1,
                       ![targetId].deaths = @ + 1,
                       ![targetId].score = @ - DEATH_PENALTY,
                       ![targetId].respawnAt = Some(t + RESPAWN_MS),
                       ![targetId].ammo = 0]

InRespawnWait(p, t) == IsSome(p.respawnAt) /\ Val(p.respawnAt) > t

NewBullet(pid, p, d, t) ==
    LET spawnOffset == HIT_RADIUS + BULLET_RADIUS + 2
    IN [ shooterId |-> pid,
         x |-> clamp(p.x + d.x * spawnOffset, 0, MAP_W),
         y |-> clamp(p.y + d.y * spawnOffset, 0, MAP_H),
         vx |-> d.x * BULLET_SPEED,
         vy |-> d.y * BULLET_SPEED,
         radius |-> BULLET_RADIUS,
         expiresAt |-> t + BULLET_TTL_MS ]

\* a variant that fires without looking at the ammo
tryShoot_NoAmmoGate(S, pid, dir, t) ==
    LET p == S.players[pid]
    IN IF p.roomId = None THEN S
       ELSE IF InRespawnWait(p, t) THEN S
       ELSE IF t - p.lastShootAt < SHOOT_COOLDOWN_MS THEN S
       ELSE LET S2 == [S EXCEPT !.players[pid].lastShootAt = t,
                                !.players[pid].ammo = @ - 1]
                d  == norm(dir)
            IN IF ~HasRoom(S.rooms, Val(p.roomId)) THEN S2
               ELSE IF len(d) = 0 THEN S2
               ELSE LET room == GetRoom(S.rooms, Val(p.roomId))
                        rs3  == MapSet(S.rooms,
                                  [room EXCEPT !.bullets =
                                      Append(@, NewBullet(pid, p, d, t))])
                    IN sendRoomState([S2 EXCEPT !.rooms = rs3], Val(p.roomId), t)

\* a variant that fires without looking at the time of the last shot
tryShoot_NoCooldown(S, pid, dir, t) ==
    LET p == S.players[pid]
    IN IF p.roomId = None THEN S
       ELSE IF InRespawnWait(p, t) THEN S
       ELSE LET S1 == [S EXCEPT !.players[pid].lastShootAt = t]
            IN IF p.ammo <= 0 THEN S1
               ELSE LET S2 == [S1 EXCEPT !.players[pid].ammo = @ - 1]
                        d  == norm(dir)
                    IN IF ~HasRoom(S.rooms, Val(p.roomId)) THEN S2
                       ELSE IF len(d) = 0 THEN S2
                       ELSE LET room == GetRoom(S.rooms, Val(p.roomId))
                                rs3  == MapSet(S.rooms,
                                          [room EXCEPT !.bullets =
                                              Append(@, NewBullet(pid, p, d, t))])
                            IN sendRoomState([S2 EXCEPT !.rooms = rs3], Val(p.roomId), t)

tryShoot(S, pid, dir, t) ==
    LET p == S.players[pid]
    IN IF p.roomId = None THEN S
       ELSE IF InRespawnWait(p, t) THEN S
       ELSE IF t - p.lastShootAt < SHOOT_COOLDOWN_MS THEN S
       ELSE LET S1 == [S EXCEPT !.players[pid].lastShootAt = t]
            IN IF p.ammo <= 0 THEN S1
               ELSE LET S2 == [S1 EXCEPT !.players[pid].ammo = @ - 1]
                        d  == norm(dir)
                    IN IF ~HasRoom(S.rooms, Val(p.roomId)) THEN S2
                       ELSE IF len(d) = 0 THEN S2
                       ELSE LET room == GetRoom(S.rooms, Val(p.roomId))
                                rs3  == MapSet(S.rooms,
                                          [room EXCEPT !.bullets =
                                              Append(@, NewBullet(pid, p, d, t))])
                            IN sendRoomState([S2 EXCEPT !.rooms = rs3], Val(p.roomId), t)

NoInput == [ kind |-> "none" ]
DirInput(v) == [ kind |-> "dir", v |-> v ]
TargetInput(v) == [ kind |-> "target", v |-> v ]

\* case "move": {dir} / {direction}, else {target} / {x, y}, else stop
Move(pid, input) ==
    /\ pid \in DOMAIN players
    /\ players' = [players EXCEPT ![pid] =
                      CASE input.kind = "dir"    -> setMoveDir(@, input.v)
                        [] input.kind = "target" -> setMoveTarget(@, input.v)
                        [] OTHER                 -> stopMove(@)]
    /\ sent' = <<>>
    /\ ev' = Event("move", pid)
    /\ UNCHANGED <<rooms, now, lastTickAt, ticks, conns, gens, lobby, hitscan, cooldown>>

\* case "stopMove"
StopMove(pid) ==
    /\ pid \in DOMAIN players
    /\ players' = [players EXCEPT ![pid] = stopMove(@)]
    /\ sent' = <<>>
    /\ ev' = Event("stopMove", pid)
    /\ UNCHANGED <<rooms, now, lastTickAt, ticks, conns, gens, lobby, hitscan, cooldown>>

\* case "aim"
Aim(pid, dir) ==
    /\ pid \in DOMAIN players
    /\ players' = [players EXCEPT ![pid] = setAimDir(@, dir)]
    /\ sent' = <<>>
    /\ ev' = Event("aim", pid)
    /\ UNCHANGED <<rooms, now, lastTickAt, ticks, conns, gens, lobby, hitscan, cooldown>>

\* case "shoot": {dir} / {direction}, else {target}, else the retained aimDir
Shoot(pid, input) ==
    /\ pid \in DOMAIN players
    /\ LET p == players[pid]
           shootDir == CASE input.kind = "dir"    -> input.v
                         [] input.kind = "target" -> Vec(input.v.x - p.x, input.v.y - p.y)
                         [] OTHER                 -> p.aimDir
       IN Commit(tryShoot(Here, pid, shootDir, now))
    /\ ev' = Event("shoot", pid)
    /\ UNCHANGED <<now, lastTickAt, ticks, conns, gens, lobby, hitscan, cooldown>>

\* case "chat": the trimmed message, to the members of the sender's room; the
\* sender's name is not part of the model, its id stands for it in `from`
Chat(pid, message) ==
    /\ pid \in DOMAIN players
    /\ Commit(IF trim(message) = "" THEN Here
              ELSE IF players[pid].roomId = None THEN Here
              ELSE broadcastRoom(Here, Val(players[pid].roomId), "chat",
                                 [ from |-> pid, message |-> trim(message), at |-> now ]))
    /\ ev' = Event("chat", pid)
    /\ UNCHANGED <<now, lastTickAt, ticks, conns, gens, lobby, hitscan, cooldown>>

-----------------------------------------------------------------------------
(* The tick.                                                               *)

\* a variant of the respawn that leaves the ammo at 0
Respawn_NoAmmo(p, spawn) ==
    [p EXCEPT !.hp = FULL_HP, !.respawnAt = None, !.x = spawn.x, !.y = spawn.y]

\* the respawn of the tick: full hp and ammo at a fresh spawn point
Respawn(p, spawn) ==
    [p EXCEPT !.hp = FULL_HP, !.ammo = FULL_AMMO, !.respawnAt = None,
              !.x = spawn.x, !.y = spawn.y]

\* a variant of the dir move that does not clamp
DirMove_NoClamp(p, t) ==
    IF p.pendingMove = None THEN p
    ELSE [p EXCEPT !.lastMoveAt = t,
                   !.x = p.x + Val(p.pendingMove).x * MOVE_SPEED,
                   !.y = p.y + Val(p.pendingMove).y * MOVE_SPEED]

\* dir move
DirMove(p, t) ==
    IF p.pendingMove = None THEN p
    ELSE IF MOVE_COOLDOWN_MS = 0 \/ t - p.lastMoveAt >= MOVE_COOLDOWN_MS
    THEN [p EXCEPT !.lastMoveAt = t,
                   !.x = clamp(p.x + Val(p.pendingMove).x * MOVE_SPEED, 0, MAP_W),
                   !.y = clamp(p.y + Val(p.pendingMove).y * MOVE_SPEED, 0, MAP_H)]
    ELSE p

\* d * step with d = norm(to) and step = Math.min(MOVE_SPEED, distance):
\* the whole of `to` when it is no longer than MOVE_SPEED, else MOVE_SPEED along it
StepToward(to) ==
    IF Dot(to, to) <= MOVE_SPEED * MOVE_SPEED THEN to
    ELSE Vec(RoundDiv(to.x * MOVE_SPEED, len(to)), RoundDiv(to.y * MOVE_SPEED, len(to)))

\* click move
ClickMove(p) ==
    IF p.pendingTarget = None THEN p
    ELSE LET to == Vec(Val(p.pendingTarget).x - p.x, Val(p.pendingTarget).y - p.y)
         IN IF Dot(to, to) <= 1
            THEN [p EXCEPT !.pendingTarget = None]
            ELSE [p EXCEPT !.x = clamp(p.x + StepToward(to).x, 0, MAP_W),
                           !.y = clamp(p.y + StepToward(to).y, 0, MAP_H)]

RespawnDue(p, t) == IsSome(p.respawnAt) /\ Val(p.respawnAt) <= t

\* one member's update in the tick ("players update")
UpdatePlayer(p, t, spawn) ==
    LET p1 == IF RespawnDue(p, t) THEN Respawn(p, spawn) ELSE p
    IN IF InRespawnWait(p1, t) THEN p1
       ELSE ClickMove(DirMove(p1, t))

RECURSIVE UpdatePlayers(_, _, _, _, _)
UpdatePlayers(ps, ids, i, t, spawns) ==
    IF i > Len(ids) THEN ps
    ELSE IF ids[i] \notin DOMAIN ps THEN UpdatePlayers(ps, ids, i + 1, t, spawns)
    ELSE UpdatePlayers(
            [ps EXCEPT ![ids[i]] =
                UpdatePlayer(@, t, IF ids[i] \in DOMAIN spawns THEN spawns[ids[i]]
                                   ELSE Vec(SPAWN_MIN, SPAWN_MIN))],
            ids, i + 1, t, spawns)

\* a variant that does not skip the shooter of the bullet
CanBeHit_OwnShooter(ps, pid, b, prev, curr, t) ==
    /\ pid \in DOMAIN ps
    /\ ~(IsSome(ps[pid].respawnAt) /\ Val(ps[pid].respawnAt) > t)
    /\ ps[pid].hp > 0
    /\ distPointToSegmentWithin(prev, curr, Vec(ps[pid].x, ps[pid].y), HIT_RADIUS + b.radius)

\* the member a bullet hits: the first in iteration order that is not the shooter,
\* is alive and not in respawn-wait, and lies within HIT_RADIUS + radius of the
\* bullet's motion segment; 0 when there is none
CanBeHit(ps, pid, b, prev, curr, t) ==
    /\ pid # b.shooterId
    /\ pid \in DOMAIN ps
    /\ ~InRespawnWait(ps[pid], t)
    /\ ps[pid].hp > 0
    /\ distPointToSegmentWithin(prev, curr, Vec(ps[pid].x, ps[pid].y), HIT_RADIUS + b.radius)

\* a variant that takes the last member in reach instead of the first
FirstHit_Last(ps, ids, b, prev, curr, t) ==
    LET hitIdx == {i \in DOMAIN ids : CanBeHit(ps, ids[i], b, prev, curr, t)}
    IN IF hitIdx = {} THEN 0
       ELSE CHOOSE i \in hitIdx : \A j \in hitIdx : i >= j

FirstHit(ps, ids, b, prev, curr, t) ==
    LET hitIdx == {i \in DOMAIN ids : CanBeHit(ps, ids[i], b, prev, curr, t)}
    IN IF hitIdx = {} THEN 0
       ELSE CHOOSE i \in hitIdx : \A j \in hitIdx : i <= j

\* the fields of a player that a hit can change
Stats(p) ==
    [ hp |-> p.hp, ammo |-> p.ammo, respawnAt |-> p.respawnAt,
      deaths |-> p.deaths, kills |-> p.kills, score |-> p.score ]

\* a bullet that updateBullets did not keep, and why
Gone(roomId, b, why) == [ room |-> roomId, bullet |-> b, why |-> why ]

\* U = [players, next, hits, gone]: the players registry, the bullets kept so far
\* and the logs of the hits and of the dropped bullets of this tick
Hit(roomId, b, targetId, ps, ps1) ==
    [ room |-> roomId, shooter |-> b.shooterId, target |-> targetId,
      applied |-> b.shooterId \in DOMAIN ps,
      shooterAmmo |-> IF b.shooterId \in DOMAIN ps THEN ps[b.shooterId].ammo ELSE 0,
      shooterRoom |-> IF b.shooterId \in DOMAIN ps THEN ps[b.shooterId].roomId ELSE None,
      hpBefore |-> ps[targetId].hp, hpAfter |-> ps1[targetId].hp,
      targetBefore |-> Stats(ps[targetId]), targetAfter |-> Stats(ps1[targetId]),
      shooterBefore |-> IF b.shooterId \in DOMAIN ps
                        THEN Some(Stats(ps[b.shooterId])) ELSE None,
      shooterAfter |-> IF b.shooterId \in DOMAIN ps1
                       THEN Some(Stats(ps1[b.shooterId])) ELSE None ]

\* a variant that looks for a hit before it looks at the walls
UpdateBullet_HitBeforeBounds(U, room, b, dtMs, t) ==
    IF t >= b.expiresAt THEN [U EXCEPT !.gone = Append(@, Gone(room.id, b, "expired"))]
    ELSE LET prev == Vec(b.x, b.y)
             curr == Vec(b.x + (b.vx * dtMs) \div 1000, b.y + (b.vy * dtMs) \div 1000)
             h == FirstHit(U.players, room.playerIds, b, prev, curr, t)
         IN IF h # 0
            THEN LET ps1 == IF b.shooterId \in DOMAIN U.players
                            THEN applyBulletHit(U.players, b.shooterId, room.playerIds[h], t)
                            ELSE U.players
                 IN [U EXCEPT !.players = ps1,
                              !.hits = Append(@, Hit(room.id, b, room.playerIds[h],
                                                     U.players, ps1)),
                              !.gone = Append(@, Gone(room.id, b, "hit"))]
            ELSE IF curr.x < 0 \/ curr.x > MAP_W \/ curr.y < 0 \/ curr.y > MAP_H
            THEN [U EXCEPT !.gone = Append(@, Gone(room.id, b, "outside"))]
            ELSE [U EXCEPT !.next = Append(@, [b EXCEPT !.x = curr.x, !.y = curr.y])]

UpdateBullet(U, room, b, dtMs, t) ==
    IF t >= b.expiresAt THEN [U EXCEPT !.gone = Append(@, Gone(room.id, b, "expired"))]
    ELSE LET prev == Vec(b.x, b.y)
             curr == Vec(b.x + (b.vx * dtMs) \div 1000, b.y + (b.vy * dtMs) \div 1000)
         IN IF curr.x < 0 \/ curr.x > MAP_W \/ curr.y < 0 \/ curr.y > MAP_H
            THEN [U EXCEPT !.gone = Append(@, Gone(room.id, b, "outside"))]
            ELSE LET h == FirstHit(U.players, room.playerIds, b, prev, curr, t)
                 IN IF h # 0
                    THEN LET ps1 == IF b.shooterId \in DOMAIN U.players
                                    THEN applyBulletHit(U.players, b.shooterId,
                                                        room.playerIds[h], t)
                                    ELSE U.players
                         IN [U EXCEPT !.players = ps1,
                                      !.hits = Append(@, Hit(room.id, b, room.playerIds[h],
                                                             U.players, ps1)),
                                      !.gone = Append(@, Gone(room.id, b, "hit"))]
                    ELSE [U EXCEPT !.next = Append(@, [b EXCEPT !.x = curr.x, !.y = curr.y])]

RECURSIVE UpdateBulletsFrom(_, _, _, _, _)
UpdateBulletsFrom(U, room, i, dtMs, t) ==
    IF i > Len(room.bullets) THEN U
    ELSE UpdateBulletsFrom(UpdateBullet(U, room, room.bullets[i], dtMs, t),
                           room, i + 1, dtMs, t)

\* a variant that leaves the bullets of the room as they are
updateBullets_KeepAll(T, roomId, dtMs, t) == T

\* T = [players, rooms, sent, hits, boards, gone]
updateBullets(T, roomId, dtMs, t) ==
    LET room == GetRoom(T.rooms, roomId)
        U    == UpdateBulletsFrom([ players |-> T.players, next |-> <<>>, hits |-> T.hits,
                                    gone |-> T.gone ],
                                  room, 1, dtMs, t)
    IN IF Len(room.bullets) = 0 THEN T
       ELSE [T EXCEPT !.players = U.players,
                      !.rooms = MapSet(@, [room EXCEPT !.bullets = U.next]),
                      !.hits = U.hits,
                      !.gone = U.gone]

\* Array.prototype.sort((a, b) => b.score - a.score): stable, highest score first
RECURSIVE SortByScore(_)
InsertByScore(sorted, e) ==
    LET before == SelectSeq(sorted, LAMBDA z : z.score >= e.score)
        after  == SelectSeq(sorted, LAMBDA z : z.score < e.score)
    IN before \o <<e>> \o after
SortByScore(list) ==
    IF list = <<>> THEN <<>>
    ELSE InsertByScore(SortByScore(SubSeq(list, 1, Len(list) - 1)), list[Len(list)])

Leaderboard(ps, room) ==
    LET mem == ResolvedMembers(ps, room)
    IN SortByScore([i \in DOMAIN mem |->
                      [ id |-> mem[i], score |-> ps[mem[i]].score,
                        kills |-> ps[mem[i]].kills, deaths |-> ps[mem[i]].deaths ]])

MatchOver(room, t) == room.endsAt > 0 /\ t >= room.endsAt

\* a variant of the loop body that does not skip a room that has ended
TickRoom_NoEndedCheck(T, roomId, dtMs, t, spawns) ==
    LET room == GetRoom(T.rooms, roomId)
    IN IF MatchOver(room, t)
       THEN LET T1 == [T EXCEPT !.rooms = MapSet(@, [room EXCEPT !.ended = TRUE]),
                                !.boards = Append(@, roomId)]
                T2 == broadcastRoom(T1, roomId, "leaderboard",
                                    [ players |-> Leaderboard(T1.players, room) ])
            IN sendRoomState(T2, roomId, t)
       ELSE LET T1 == [T EXCEPT !.players =
                          UpdatePlayers(@, room.playerIds, 1, t, spawns)]
                T2 == updateBullets(T1, roomId, dtMs, t)
            IN sendRoomState(T2, roomId, t)

\* a variant of the loop body that keeps simulating a room that has ended
TickRoom_SimulateEnded(T, roomId, dtMs, t, spawns) ==
    LET room == GetRoom(T.rooms, roomId)
    IN IF ~room.ended /\ MatchOver(room, t)
       THEN LET T1 == [T EXCEPT !.rooms = MapSet(@, [room EXCEPT !.ended = TRUE]),
                                !.boards = Append(@, roomId)]
                T2 == broadcastRoom(T1, roomId, "leaderboard",
                                    [ players |-> Leaderboard(T1.players, room) ])
            IN sendRoomState(T2, roomId, t)
       ELSE LET T1 == [T EXCEPT !.players =
                          UpdatePlayers(@, room.playerIds, 1, t, spawns)]
                T2 == updateBullets(T1, roomId, dtMs, t)
            IN IF room.ended THEN T2 ELSE sendRoomState(T2, roomId, t)

\* the body of the tick's loop for one room
TickRoom(T, roomId, dtMs, t, spawns) ==
    LET room == GetRoom(T.rooms, roomId)
    IN IF room.ended THEN T
       ELSE IF MatchOver(room, t)
       THEN LET T1 == [T EXCEPT !.rooms = MapSet(@, [room EXCEPT !.ended = TRUE]),
                                !.boards = Append(@, roomId)]
                T2 == broadcastRoom(T1, roomId, "leaderboard",
                                    [ players |-> Leaderboard(T1.players, room) ])
            IN sendRoomState(T2, roomId, t)
       ELSE LET T1 == [T EXCEPT !.players =
                          UpdatePlayers(@, room.playerIds, 1, t, spawns)]
                T2 == updateBullets(T1, roomId, dtMs, t)
            IN sendRoomState(T2, roomId, t)

RECURSIVE TickRooms(_, _, _, _, _, _)
TickRooms(T, ids, i, dtMs, t, spawns) ==
    IF i > Len(ids) THEN T
    ELSE TickRooms(TickRoom(T, ids[i], dtMs, t, spawns), ids, i + 1, dtMs, t, spawns)

\* the members the tick respawns
WillRespawn(t) ==
    {pid \in DOMAIN players :
        /\ RespawnDue(players[pid], t)
        /\ \E i \in DOMAIN rooms :
              /\ ~rooms[i].ended
              /\ ~MatchOver(rooms[i], t)
              /\ pid \in SeqToSet(rooms[i].playerIds)}

\* Math.min(0.1, Math.max(0.001, (now - lastTickAt) / 1000)), in ms
DtMs(t, last) == Min(100, Max(1, t - last))

\* tick(), run by setInterval every TICK_MS; spawns draws Math.random()
Tick(spawns) ==
    /\ now - lastTickAt >= TICK_MS
    /\ LET T0 == [ players |-> players, rooms |-> rooms, sent |-> <<>>,
                   hits |-> <<>>, boards |-> <<>>, gone |-> <<>> ]
           T  == TickRooms(T0, [i \in DOMAIN rooms |-> rooms[i].id], 1,
                           DtMs(now, lastTickAt), now, spawns)
       IN /\ players' = T.players
          /\ rooms' = T.rooms
          /\ sent' = T.sent
          /\ ev' = [ Event("tick", "") EXCEPT
                       !.hits = T.hits, !.boards = T.boards, !.gone = T.gone,
                       !.respawned = {pid \in DOMAIN players :
                                        /\ RespawnDue(players[pid], now)
                                        /\ T.players[pid].respawnAt
                                              # players[pid].respawnAt} ]
    /\ lastTickAt' = now
    /\ ticks' = ticks + 1
    /\ UNCHANGED <<now, conns, gens, lobby, hitscan, cooldown>>

\* the wall clock moves on by d ms between two ticks; limit bounds the ticks of
\* one behaviour
Advance(d, limit) ==
    /\ now = lastTickAt
    /\ ticks < limit
    /\ now' = now + d
    /\ sent' = <<>>
    /\ ev' = Event("advance", "")
    /\ UNCHANGED <<players, rooms, lastTickAt, ticks, conns, gens, lobby, hitscan, cooldown>>

-----------------------------------------------------------------------------
(* The team lobby server: connections say HELLO, create, join and leave    *)
(* rooms, pick a team and set ready.                                       *)

maxRoomPlayers == 8
maxTeamPlayers == 4

\* createSid(): the sids the connection handler draws, in the order of the
\* connections; a socket is named by the sid of its connection
SidPool == << "s1", "s2", "s3", "s4", "s5", "s6", "s7", "s8", "s9" >>
\* createSid(): the ids createRoom can draw; it draws until the id is not in use
LobbyRoomIdPool == { "t1" }

ConnectionState(sid) ==
    [ sid |-> sid, name |-> "", roomId |-> None, hasHello |-> FALSE ]

\* joinedAt and socket are left out: the socket is the sid, and no handler
\* reads joinedAt
RoomPlayerState(connection) ==
    [ sid |-> connection.sid, name |-> connection.name, team |-> None, ready |-> FALSE ]

RoomState(id, name) == [ id |-> id, name |-> name, players |-> <<>> ]

\* room.players: Map<sid, RoomPlayerState> in insertion order
PlayersHas(ps, sid) == \E i \in DOMAIN ps : ps[i].sid = sid

PlayersGet(ps, sid) == ps[CHOOSE i \in DOMAIN ps : ps[i].sid = sid]

PlayersSet(ps, player) ==
    IF PlayersHas(ps, player.sid)
    THEN [ps EXCEPT ![CHOOSE i \in DOMAIN ps : ps[i].sid = player.sid] = player]
    ELSE Append(ps, player)

PlayersDelete(ps, sid) == SelectSeq(ps, LAMBDA p : p.sid # sid)

normalizeName(name, sid) ==
    IF trim(name) # "" THEN trim(name) ELSE "Guest-" \o sid

normalizeRoomName(raw) ==
    IF trim(raw) = "" THEN None ELSE Some(trim(raw))

countTeams(ps, excludeSid) ==
    LET counted == SelectSeq(ps, LAMBDA p : ~(excludeSid # None /\ p.sid = Val(excludeSid)))
    IN [ total |-> Len(counted),
         a |-> Len(SelectSeq(counted, LAMBDA p : p.team = Some("A"))),
         b |-> Len(SelectSeq(counted, LAMBDA p : p.team = Some("B"))) ]

buildRoomSummary(room) ==
    [ roomId |-> room.id, name |-> room.name,
      counts |-> countTeams(room.players, None),
      inProgress |-> \E i \in DOMAIN room.players : room.players[i].ready ]

\* the store of the lobby handlers: connections by socket, rooms in insertion
\* order, the messages of the running handler, the connections accepted so far
LobbyStart == [ connections |-> <<>>, rooms |-> <<>>, out |-> <<>>, opened |-> 0 ]

lobbySend(L, to, type, payload) == [L EXCEPT !.out = Append(@, Msg(to, type, payload))]

lobbySendError(L, to, code) == lobbySend(L, to, "ERROR", [ code |-> code ])

RECURSIVE lobbySendAll(_, _, _, _)
lobbySendAll(L, tos, type, payload) ==
    IF tos = <<>> THEN L
    ELSE lobbySendAll(lobbySend(L, Head(tos), type, payload), Tail(tos), type, payload)

lobbySendRoomState(L, roomId) ==
    LET room == GetRoom(L.rooms, roomId)
    IN lobbySendAll(L, [i \in DOMAIN room.players |-> room.players[i].sid], "ROOM_STATE",
                    [ roomId |-> room.id, name |-> room.name, players |-> room.players ])

broadcastLobbyState(L) ==
    LET idle == SelectSeq(SidPool, LAMBDA s : /\ s \in DOMAIN L.connections
                                              /\ L.connections[s].hasHello
                                              /\ L.connections[s].roomId = None)
    IN lobbySendAll(L, idle, "LOBBY_STATE",
                    [ rooms |-> [i \in DOMAIN L.rooms |-> buildRoomSummary(L.rooms[i])] ])

leaveRoom(L, c) ==
    LET connection == L.connections[c]
    IN IF connection.roomId = None THEN L
       ELSE IF ~HasRoom(L.rooms, Val(connection.roomId))
       THEN [L EXCEPT !.connections[c].roomId = None]
       ELSE LET id == Val(connection.roomId)
                L1 == [L EXCEPT !.rooms[RoomIndex(L.rooms, id)].players =
                                     PlayersDelete(@, connection.sid),
                                !.connections[c].roomId = None]
            IN IF GetRoom(L1.rooms, id).players = <<>>
               THEN [L1 EXCEPT !.rooms = MapDelete(@, id)]
               ELSE lobbySendRoomState(L1, id)

lobbyCreateRoom(L, id, name) == [L EXCEPT !.rooms = Append(@, RoomState(id, name))]

lobbyJoinRoom(L, c, roomId) ==
    IF L.connections[c].roomId = Some(roomId) THEN lobbySendRoomState(L, roomId)
    ELSE IF Len(GetRoom(L.rooms, roomId).players) >= maxRoomPlayers
    THEN lobbySendError(L, c, "ROOM_FULL")
    ELSE LET L1 == leaveRoom(L, c)
             L2 == [L1 EXCEPT !.rooms[RoomIndex(L1.rooms, roomId)].players =
                                  PlayersSet(@, RoomPlayerState(L1.connections[c])),
                              !.connections[c].roomId = Some(roomId)]
         IN broadcastLobbyState(lobbySendRoomState(L2, roomId))

\* a variant that does not count the team
updateTeam_NoTeamCheck(L, c, team) ==
    LET connection == L.connections[c]
    IN IF connection.roomId = None THEN lobbySendError(L, c, "NOT_IN_ROOM")
       ELSE IF ~HasRoom(L.rooms, Val(connection.roomId))
       THEN broadcastLobbyState([lobbySendError(L, c, "NOT_FOUND")
                                    EXCEPT !.connections[c].roomId = None])
       ELSE LET id == Val(connection.roomId)
                room == GetRoom(L.rooms, id)
            IN IF ~PlayersHas(room.players, connection.sid) THEN L
               ELSE broadcastLobbyState(lobbySendRoomState(
                        [L EXCEPT !.rooms[RoomIndex(L.rooms, id)].players =
                                      PlayersSet(@, [PlayersGet(@, connection.sid)
                                                        EXCEPT !.team = team])], id))

updateTeam(L, c, team) ==
    LET connection == L.connections[c]
    IN IF connection.roomId = None THEN lobbySendError(L, c, "NOT_IN_ROOM")
       ELSE IF ~HasRoom(L.rooms, Val(connection.roomId))
       THEN broadcastLobbyState([lobbySendError(L, c, "NOT_FOUND")
                                    EXCEPT !.connections[c].roomId = None])
       ELSE LET id == Val(connection.roomId)
                room == GetRoom(L.rooms, id)
                counts == countTeams(room.players, Some(connection.sid))
            IN IF ~PlayersHas(room.players, connection.sid) THEN L
               ELSE IF /\ team # None
                       /\ (IF team = Some("A") THEN counts.a ELSE counts.b) >= maxTeamPlayers
               THEN lobbySendError(L, c, "TEAM_FULL")
               ELSE broadcastLobbyState(lobbySendRoomState(
                        [L EXCEPT !.rooms[RoomIndex(L.rooms, id)].players =
                                      PlayersSet(@, [PlayersGet(@, connection.sid)
                                                        EXCEPT !.team = team])], id))

updateReady(L, c, ready) ==
    LET connection == L.connections[c]
    IN IF connection.roomId = None THEN lobbySendError(L, c, "NOT_IN_ROOM")
       ELSE IF ~HasRoom(L.rooms, Val(connection.roomId))
       THEN broadcastLobbyState([lobbySendError(L, c, "NOT_FOUND")
                                    EXCEPT !.connections[c].roomId = None])
       ELSE LET id == Val(connection.roomId)
                room == GetRoom(L.rooms, id)
            IN IF ~PlayersHas(room.players, connection.sid) THEN L
               ELSE broadcastLobbyState(lobbySendRoomState(
                        [L EXCEPT !.rooms[RoomIndex(L.rooms, id)].players =
                                      PlayersSet(@, [PlayersGet(@, connection.sid)
                                                        EXCEPT !.ready = ready])], id))

handleDisconnect(L, c) ==
    LET L1 == leaveRoom(L, c)
    IN IF L1.connections[c].hasHello THEN broadcastLobbyState(L1) ELSE L1

\* the handlers of the lobby start with no message sent and leave the game
\* server alone
Quiet == [lobby EXCEPT !.out = <<>>]

LobbyCommit(L) ==
    /\ lobby' = L
    /\ UNCHANGED <<players, rooms, now, lastTickAt, ticks, conns, gens, sent, ev, hitscan, cooldown>>

\* wss.on("connection")
OnConnection(pool) ==
    /\ lobby.opened < Len(pool)
    /\ LET sid == pool[lobby.opened + 1]
       IN LobbyCommit([Quiet EXCEPT !.opened = @ + 1,
                                    !.connections = @ @@ (sid :> ConnectionState(sid))])

\* socket.on("close")
OnClose(c) ==
    LET L1 == handleDisconnect(Quiet, c)
    IN LobbyCommit([L1 EXCEPT !.connections =
                                  [s \in DOMAIN @ \ {c} |-> @[s]]])

HELLO(c, name) ==
    LET given == normalizeName(name, lobby.connections[c].sid)
        L1 == [Quiet EXCEPT !.connections[c].name = given,
                            !.connections[c].hasHello = TRUE,
                            !.connections[c].roomId = None]
    IN LobbyCommit(broadcastLobbyState(
           lobbySend(L1, c, "WELCOME", [ sid |-> L1.connections[c].sid, name |-> given ])))

NoHello(c) == lobbySendError(Quiet, c, "NO_HELLO")

PING(c) ==
    LobbyCommit(IF ~lobby.connections[c].hasHello THEN NoHello(c)
                ELSE lobbySend(Quiet, c, "PONG", <<>>))

CREATE_ROOM(c, name, id) ==
    /\ id \notin RoomIds(lobby.rooms)
    /\ LobbyCommit(IF ~lobby.connections[c].hasHello THEN NoHello(c)
                   ELSE IF normalizeRoomName(name) = None
                   THEN lobbySendError(Quiet, c, "INVALID_NAME")
                   ELSE lobbyJoinRoom(lobbyCreateRoom(Quiet, id, Val(normalizeRoomName(name))),
                                      c, id))

JOIN_ROOM(c, roomId) ==
    LobbyCommit(IF ~lobby.connections[c].hasHello THEN NoHello(c)
                ELSE IF roomId = "" THEN lobbySendError(Quiet, c, "INVALID_ROOM")
                ELSE IF ~HasRoom(lobby.rooms, roomId) THEN lobbySendError(Quiet, c, "NOT_FOUND")
                ELSE lobbyJoinRoom(Quiet, c, roomId))

LEAVE_ROOM(c) ==
    LobbyCommit(IF ~lobby.connections[c].hasHello THEN NoHello(c)
                ELSE broadcastLobbyState(leaveRoom(Quiet, c)))

SET_TEAM(c, team) ==
    LobbyCommit(IF ~lobby.connections[c].hasHello THEN NoHello(c)
                ELSE updateTeam(Quiet, c, team))

SET_READY(c, ready) ==
    LobbyCommit(IF ~lobby.connections[c].hasHello THEN NoHello(c)
                ELSE updateReady(Quiet, c, ready))

-----------------------------------------------------------------------------
(* The hitscan compatibility server (src/server/src/index.ts 2027-2800).   *)
(* Its PlayerRuntime, setMoveDir, stopMove, setAimDir, norm and len are    *)
(* those of the projectile server, and so are the constants but the map.   *)
(* Names and chat are left out: no handler reads a name, and chat changes  *)
(* nothing in the server.                                                  *)

HITSCAN_MAP_W == 800
HITSCAN_MAP_H == 600
HITSCAN_SPAWN_MIN == 100

\* newId(): the ids of the connections and of the rooms, in the order drawn
HitscanIdPool == << "h1", "h2" >>
HitscanRoomIdPool == << "m1" >>

\* the store of the handlers: players in connection order, rooms in insertion
\* order, the clock Date.now(), the messages of the running handler, the ids
\* drawn so far, the ticks run so far
HitscanStart ==
    [ players |-> <<>>, rooms |-> <<>>, now |-> StartMs, out |-> <<>>,
      opened |-> 0, made |-> 0, ticks |-> 0 ]

\* send(ws, msg); of the payload the model keeps the room the message is about
hitscanSend(H, to, type, about) ==
    [H EXCEPT !.out = Append(@, Msg(to, type, about))]

RECURSIVE hitscanSendAll(_, _, _, _)
hitscanSendAll(H, tos, type, about) ==
    IF tos = <<>> THEN H
    ELSE hitscanSendAll(hitscanSend(H, Head(tos), type, about), Tail(tos), type, about)

hitscanBroadcastLobby(H) ==
    hitscanSendAll(H, SelectSeq(HitscanIdPool, LAMBDA id : /\ id \in DOMAIN H.players
                                                          /\ H.players[id].roomId = None),
                   "lobby", [i \in DOMAIN H.rooms |-> H.rooms[i].id])

hitscanBroadcastRoom(H, roomId, type) ==
    IF ~HasRoom(H.rooms, roomId) THEN H
    ELSE hitscanSendAll(H, SelectSeq(GetRoom(H.rooms, roomId).playerIds,
                                     LAMBDA id : id \in DOMAIN H.players),
                        type, roomId)

hitscanSendRoomState(H, roomId) == hitscanBroadcastRoom(H, roomId, "room")

hitscanDetachFromRoom(H, pid) ==
    LET p == H.players[pid]
    IN IF p.roomId = None THEN H
       ELSE LET oldRoomId == Val(p.roomId)
                rs1 == IF ~HasRoom(H.rooms, oldRoomId) THEN H.rooms
                       ELSE LET i    == RoomIndex(H.rooms, oldRoomId)
                                left == SelectSeq(H.rooms[i].playerIds, LAMBDA q : q # pid)
                            IN IF left = <<>> THEN MapDelete(H.rooms, oldRoomId)
                               ELSE [H.rooms EXCEPT ![i].playerIds = left]
            IN hitscanSendRoomState(
                   [H EXCEPT !.rooms = rs1,
                             !.players[pid].roomId = None,
                             !.players[pid].pendingMove = None,
                             !.players[pid].pendingTarget = None], oldRoomId)

hitscanJoinLobby(H, pid) ==
    LET H1 == hitscanDetachFromRoom(H, pid)
    IN hitscanBroadcastLobby(
           hitscanSend(H1, pid, "lobby", [i \in DOMAIN H1.rooms |-> H1.rooms[i].id]))

\* the room object found at the start takes the player even when
\* detachFromRoom has deleted it from the registry in between
hitscanJoinRoom(H, pid, roomId, password, spawn) ==
    IF ~HasRoom(H.rooms, roomId) THEN hitscanSend(H, pid, "error", "Room not found.")
    ELSE LET room == GetRoom(H.rooms, roomId)
         IN IF room.passwordProtected /\ room.password # password
            THEN hitscanSend(H, pid, "error", "Invalid password.")
            ELSE IF Len(room.playerIds) >= room.maxPlayers
            THEN hitscanSend(H, pid, "error", "Room is full.")
            ELSE LET H1 == hitscanDetachFromRoom(H, pid)
                     H2 == [H1 EXCEPT !.players[pid] =
                               [@ EXCEPT !.roomId = Some(roomId),
                                         !.x = spawn.x, !.y = spawn.y,
                                         !.hp = FULL_HP, !.ammo = FULL_AMMO,
                                         !.respawnAt = None,
                                         !.pendingMove = None, !.pendingTarget = None]]
                     H3 == IF HasRoom(H2.rooms, roomId)
                           THEN [H2 EXCEPT !.rooms[RoomIndex(H2.rooms, roomId)].playerIds =
                                               IF pid \in SeqToSet(@) THEN @ ELSE Append(@, pid)]
                           ELSE H2
                 IN hitscanBroadcastLobby(hitscanSendRoomState(H3, roomId))

hitscanSetMoveTarget(p, target) ==
    [p EXCEPT !.pendingTarget =
        Some(Vec(clamp(target.x, 0, HITSCAN_MAP_W), clamp(target.y, 0, HITSCAN_MAP_H)))]

\* the members the ray of p along d can hit: alive, ahead within BULLET_RANGE,
\* no further than HIT_RADIUS from the ray
InRay(H, pid, d, i) ==
    LET p   == H.players[pid]
        ids == GetRoom(H.rooms, Val(p.roomId)).playerIds
        tid == ids[i]
    IN /\ tid # pid
       /\ tid \in DOMAIN H.players
       /\ LET t    == H.players[tid]
              to   == Vec(t.x - p.x, t.y - p.y)
              proj == Dot(to, d)
              off  == Vec(p.x + d.x * proj - t.x, p.y + d.y * proj - t.y)
          IN /\ ~InRespawnWait(t, H.now)
             /\ t.hp > 0
             /\ proj > 0 /\ proj <= BULLET_RANGE
             /\ Dot(off, off) <= HIT_RADIUS * HIT_RADIUS

Proj(H, pid, d, tid) ==
    Dot(Vec(H.players[tid].x - H.players[pid].x, H.players[tid].y - H.players[pid].y), d)

\* bestTarget: the nearest along the ray, the first listed of equally near ones
BestTarget(H, pid, d) ==
    LET ids   == GetRoom(H.rooms, Val(H.players[pid].roomId)).playerIds
        cands == { i \in DOMAIN ids : InRay(H, pid, d, i) }
    IN IF cands = {} THEN None
       ELSE Some(ids[CHOOSE i \in cands :
                        \A j \in cands :
                           \/ Proj(H, pid, d, ids[i]) < Proj(H, pid, d, ids[j])
                           \/ Proj(H, pid, d, ids[i]) = Proj(H, pid, d, ids[j]) /\ i <= j])

hitscanApplyHit(H, pid, tid) ==
    LET hp1 == Max(0, H.players[tid].hp - BULLET_DAMAGE)
        H1  == [H EXCEPT !.players[tid].hp = hp1]
    IN IF hp1 # 0 THEN H1
       ELSE [H1 EXCEPT !.players[pid].kills = @ + 1,
                       !.players[pid].score = @ + 1,
                       !.players[tid].deaths = @ + 1,
                       !.players[tid].score = @ - DEATH_PENALTY,
                       !.players[tid].respawnAt = Some(H.now + RESPAWN_MS),
                       !.players[tid].ammo = 0]

hitscanTryShoot(H, pid, dir) ==
    LET p == H.players[pid]
    IN IF p.roomId = None THEN H
       ELSE IF InRespawnWait(p, H.now) THEN H
       ELSE IF H.now - p.lastShootAt < SHOOT_COOLDOWN_MS THEN H
       ELSE LET H1 == [H EXCEPT !.players[pid].lastShootAt = H.now]
            IN IF p.ammo <= 0 THEN H1
               ELSE LET H2 == [H1 EXCEPT !.players[pid].ammo = @ - 1]
                        d  == norm(dir)
                    IN IF ~HasRoom(H.rooms, Val(p.roomId)) THEN H2
                       ELSE IF len(d) = 0 THEN H2
                       ELSE LET best == BestTarget(H2, pid, d)
                                H3   == IF best = None THEN H2
                                        ELSE hitscanApplyHit(H2, pid, Val(best))
                            IN hitscanSendRoomState(H3, Val(p.roomId))

hitscanDirMove(p, t) ==
    IF p.pendingMove = None THEN p
    ELSE IF MOVE_COOLDOWN_MS = 0 \/ t - p.lastMoveAt >= MOVE_COOLDOWN_MS
    THEN [p EXCEPT !.lastMoveAt = t,
                   !.x = clamp(p.x + Val(p.pendingMove).x * MOVE_SPEED, 0, HITSCAN_MAP_W),
                   !.y = clamp(p.y + Val(p.pendingMove).y * MOVE_SPEED, 0, HITSCAN_MAP_H)]
    ELSE p

hitscanClickMove(p) ==
    IF p.pendingTarget = None THEN p
    ELSE LET to == Vec(Val(p.pendingTarget).x - p.x, Val(p.pendingTarget).y - p.y)
         IN IF Dot(to, to) <= 1
            THEN [p EXCEPT !.pendingTarget = None]
            ELSE [p EXCEPT !.x = clamp(p.x + StepToward(to).x, 0, HITSCAN_MAP_W),
                           !.y = clamp(p.y + StepToward(to).y, 0, HITSCAN_MAP_H)]

\* one member's turn in the tick: respawn, dir move, click move
hitscanUpdatePlayer(p, t, spawn) ==
    LET p1 == IF RespawnDue(p, t) THEN Respawn(p, spawn) ELSE p
    IN IF InRespawnWait(p1, t) THEN p1
       ELSE hitscanClickMove(hitscanDirMove(p1, t))

RECURSIVE hitscanUpdatePlayers(_, _, _, _)
hitscanUpdatePlayers(H, ids, i, spawns) ==
    IF i > Len(ids) THEN H
    ELSE IF ids[i] \notin DOMAIN H.players THEN hitscanUpdatePlayers(H, ids, i + 1, spawns)
    ELSE hitscanUpdatePlayers(
             [H EXCEPT !.players[ids[i]] = hitscanUpdatePlayer(@, H.now, spawns[ids[i]])],
             ids, i + 1, spawns)

hitscanTickRoom(H, roomId, spawns) ==
    LET room == GetRoom(H.rooms, roomId)
    IN IF room.ended THEN H
       ELSE IF room.endsAt > 0 /\ H.now >= room.endsAt
       THEN hitscanSendRoomState(
                hitscanBroadcastRoom(
                    [H EXCEPT !.rooms[RoomIndex(H.rooms, roomId)].ended = TRUE],
                    roomId, "leaderboard"), roomId)
       ELSE hitscanSendRoomState(hitscanUpdatePlayers(H, room.playerIds, 1, spawns), roomId)

RECURSIVE hitscanTickRooms(_, _, _, _)
hitscanTickRooms(H, ids, i, spawns) ==
    IF i > Len(ids) THEN H
    ELSE hitscanTickRooms(hitscanTickRoom(H, ids[i], spawns), ids, i + 1, spawns)

\* the handlers start with no message sent and leave the other servers alone
Hush == [hitscan EXCEPT !.out = <<>>]

HitscanCommit(H) ==
    /\ hitscan' = H
    /\ UNCHANGED <<players, rooms, now, lastTickAt, ticks, conns, gens, sent, ev, lobby, cooldown>>

\* wss.on("connection")
HitscanConnection ==
    /\ hitscan.opened < Len(HitscanIdPool)
    /\ LET id == HitscanIdPool[hitscan.opened + 1]
           H1 == [Hush EXCEPT !.opened = @ + 1, !.players = @ @@ (id :> NewPlayer)]
       IN HitscanCommit(hitscanSend(hitscanSend(H1, id, "welcome", id), id, "lobby",
                                    [i \in DOMAIN H1.rooms |-> H1.rooms[i].id]))

\* socket.on("close")
HitscanClose(pid) ==
    LET H1 == hitscanDetachFromRoom(Hush, pid)
        H2 == [H1 EXCEPT !.players = [q \in DOMAIN @ \ {pid} |-> @[q]]]
    IN HitscanCommit(hitscanBroadcastLobby(
           IF hitscan.players[pid].roomId = None THEN H2
           ELSE hitscanSendRoomState(H2, Val(hitscan.players[pid].roomId))))

\* case "requestLobby", "joinLobby", "leaveRoom", "leave"
HitscanJoinLobby(pid) == HitscanCommit(hitscanJoinLobby(Hush, pid))

\* case "createRoom"
HitscanCreateRoom(pid, roomIdRaw, maxPlayers, timeLimitSec, password, spawn) ==
    /\ trim(roomIdRaw) = "" => hitscan.made < Len(HitscanRoomIdPool)
    /\ LET roomId == IF trim(roomIdRaw) # "" THEN trim(roomIdRaw)
                     ELSE HitscanRoomIdPool[hitscan.made + 1]
           limit  == clamp(timeLimitSec, MIN_TIME_LIMIT, MAX_TIME_LIMIT)
           room   == [ id |-> roomId,
                       passwordProtected |-> trim(password) # "",
                       password |-> IF trim(password) # "" THEN Some(password) ELSE None,
                       maxPlayers |-> clamp(maxPlayers, MIN_PLAYERS, MAX_PLAYERS),
                       timeLimitSec |-> limit,
                       createdAt |-> hitscan.now,
                       endsAt |-> hitscan.now + limit * 1000,
                       ended |-> FALSE,
                       playerIds |-> <<>> ]
           H1 == [Hush EXCEPT !.made = IF trim(roomIdRaw) = "" THEN @ + 1 ELSE @,
                              !.rooms = MapSet(@, room)]
       IN HitscanCommit(hitscanJoinRoom(hitscanBroadcastLobby(H1), pid, roomId,
                                        room.password, spawn))

\* case "joinRoom"
HitscanJoinRoom(pid, roomIdRaw, passwordRaw, spawn) ==
    HitscanCommit(IF trim(roomIdRaw) = "" THEN Hush
                  ELSE hitscanJoinRoom(Hush, pid, trim(roomIdRaw),
                                       IF trim(passwordRaw) = "" THEN None
                                       ELSE Some(trim(passwordRaw)), spawn))

\* case "stop", "stopMove", "moveStop"
HitscanStopMove(pid) ==
    LET H1 == [Hush EXCEPT !.players[pid] = stopMove(@)]
    IN HitscanCommit(IF H1.players[pid].roomId = None THEN H1
                     ELSE hitscanSendRoomState(H1, Val(H1.players[pid].roomId)))

\* case "move": {dir} sets the direction and the aim, {target} the target and
\* the aim
HitscanMove(pid, input) ==
    LET p  == hitscan.players[pid]
        p1 == CASE input.kind = "dir" ->
                     IF len(input.v) > 0 THEN setAimDir(setMoveDir(p, input.v), input.v)
                     ELSE setMoveDir(p, input.v)
                [] input.kind = "target" ->
                     setAimDir(hitscanSetMoveTarget(p, input.v),
                               Vec(input.v.x - p.x, input.v.y - p.y))
                [] OTHER -> p
        H1 == [Hush EXCEPT !.players[pid] = p1]
    IN HitscanCommit(IF p1.roomId = None THEN H1
                     ELSE hitscanSendRoomState(H1, Val(p1.roomId)))

\* case "shoot": {dir}, else {target}, else the retained aimDir
HitscanShoot(pid, input) ==
    LET p == hitscan.players[pid]
        shootDir == CASE input.kind = "dir"    -> input.v
                      [] input.kind = "target" -> Vec(input.v.x - p.x, input.v.y - p.y)
                      [] OTHER                 -> p.aimDir
    IN HitscanCommit(hitscanTryShoot([Hush EXCEPT !.players[pid] = setAimDir(@, shootDir)],
                                     pid, shootDir))

\* tick(), run by setInterval; spawns draws Math.random(); limit bounds the
\* ticks of one behaviour
HitscanTick(spawns, limit) ==
    /\ hitscan.ticks < limit
    /\ HitscanCommit(hitscanTickRooms([Hush EXCEPT !.ticks = @ + 1],
                                      [i \in DOMAIN hitscan.rooms |-> hitscan.rooms[i].id],
                                      1, spawns))

\* the wall clock moves on by d ms, up to limit
HitscanAdvance(d, limit) ==
    /\ hitscan.now + d <= limit
    /\ HitscanCommit([Hush EXCEPT !.now = @ + d])

-----------------------------------------------------------------------------
(* The cooldown server (src/unnamed/part_000): its room registry.  The     *)
(* handlers of the registry compare no times, the clock stands at StartMs. *)

\* crypto.randomUUID(): the ids of the connections, in connection order
CooldownIdPool == << "k1", "k2" >>

COOLDOWN_MIN_PLAYERS == 2
COOLDOWN_MAX_PLAYERS == 8
COOLDOWN_MIN_TIME_LIMIT == 60
COOLDOWN_MAX_TIME_LIMIT == 900
COOLDOWN_START == 100

createPlayer(id) ==
    [ id |-> id, name |-> "Commander", roomId |-> None,
      position |-> Vec(COOLDOWN_START, COOLDOWN_START), target |-> None,
      hp |-> FULL_HP, ammo |-> FULL_AMMO, score |-> 0, deaths |-> 0,
      nextActionAt |-> 0, respawnAt |-> None, pendingMove |-> None ]

\* the store of the handlers: players and sockets (set and deleted together,
\* a socket is named by the id of its player), rooms in insertion order, the
\* messages of the running handler, the connections accepted so far
CooldownStart == [ players |-> <<>>, rooms |-> <<>>, out |-> <<>>, opened |-> 0 ]

\* send(socket, message): nothing goes to a socket that is no longer open
cooldownSend(K, to, type, payload) ==
    IF to \in K.closing THEN K
    ELSE [K EXCEPT !.out = Append(@, Msg(to, type, payload))]

RECURSIVE cooldownSendAll(_, _, _, _)
cooldownSendAll(K, tos, type, payload) ==
    IF tos = <<>> THEN K
    ELSE cooldownSendAll(cooldownSend(K, Head(tos), type, payload), Tail(tos), type, payload)

\* the room without password and ended
RoomSummary(room) ==
    [ id |-> room.id, maxPlayers |-> room.maxPlayers, timeLimitSec |-> room.timeLimitSec,
      passwordProtected |-> room.passwordProtected, createdAt |-> room.createdAt,
      endsAt |-> room.endsAt, players |-> room.players ]

getRoomSummaries(K) == [i \in DOMAIN K.rooms |-> RoomSummary(K.rooms[i])]

\* sockets.forEach: the sockets Map in insertion order
cooldownBroadcastLobby(K) ==
    cooldownSendAll(K, SelectSeq(CooldownIdPool, LAMBDA id : id \in DOMAIN K.players),
                    "lobby", [ rooms |-> getRoomSummaries(K) ])

cooldownSendRoomState(K, roomId) ==
    IF ~HasRoom(K.rooms, roomId) THEN K
    ELSE LET room == GetRoom(K.rooms, roomId)
             playersInRoom == SelectSeq(room.players, LAMBDA id : id \in DOMAIN K.players)
         IN cooldownSendAll(K, playersInRoom, "room",
                            [ roomId |-> roomId, players |-> playersInRoom ])

cooldownLeaveRoom(K, c) ==
    LET player == K.players[c]
    IN IF player.roomId = None THEN K
       ELSE IF ~HasRoom(K.rooms, Val(player.roomId))
       THEN [K EXCEPT !.players[c].roomId = None]
       ELSE LET id == Val(player.roomId)
                i  == RoomIndex(K.rooms, id)
                K1 == [K EXCEPT !.rooms[i].players = SelectSeq(@, LAMBDA q : q # c),
                                !.players[c].roomId = None,
                                !.players[c].target = None,
                                !.players[c].pendingMove = None]
                K2 == cooldownBroadcastLobby(K1)
            IN IF K2.rooms[i].players = <<>>
               THEN [K2 EXCEPT !.rooms = MapDelete(@, id)]
               ELSE K2

\* the fields createRoom and joinRoom set on the player
CooldownSpawn(player, roomId, spawn) ==
    [player EXCEPT !.roomId = Some(roomId), !.position = spawn,
                   !.hp = FULL_HP, !.ammo = FULL_AMMO, !.respawnAt = None]

\* case "createRoom"
cooldownCreateRoom(K, c, roomId, maxPlayers, timeLimitSec, password, spawn) ==
    IF HasRoom(K.rooms, roomId)
    THEN cooldownSend(K, c, "error", [ message |-> "Room already exists." ])
    ELSE LET limitSec == Max(COOLDOWN_MIN_TIME_LIMIT, Min(timeLimitSec, COOLDOWN_MAX_TIME_LIMIT))
             newRoom == [ id |-> roomId,
                          maxPlayers |-> Max(COOLDOWN_MIN_PLAYERS,
                                             Min(maxPlayers, COOLDOWN_MAX_PLAYERS)),
                          timeLimitSec |-> limitSec,
                          passwordProtected |-> password # None,
                          password |-> password,
                          createdAt |-> StartMs,
                          endsAt |-> StartMs + limitSec * 1000,
                          players |-> <<>>,
                          ended |-> FALSE ]
             K1 == cooldownBroadcastLobby([K EXCEPT !.rooms = MapSet(@, newRoom)])
             K2 == [K1 EXCEPT !.players[c] = CooldownSpawn(@, roomId, spawn),
                              !.rooms[RoomIndex(K1.rooms, roomId)].players = Append(@, c)]
         IN cooldownSendRoomState(K2, roomId)

\* case "joinRoom"; the room object found at the start takes the player even
\* when leaveRoom has deleted it from the registry in between
cooldownJoinRoom(K, c, roomId, password, spawn) ==
    IF ~HasRoom(K.rooms, roomId)
    THEN cooldownSend(K, c, "error", [ message |-> "Room not found." ])
    ELSE LET room == GetRoom(K.rooms, roomId)
         IN IF room.password # None /\ room.password # password
            THEN cooldownSend(K, c, "error", [ message |-> "Incorrect password." ])
            ELSE IF Len(room.players) >= room.maxPlayers
            THEN cooldownSend(K, c, "error", [ message |-> "Room is full." ])
            ELSE LET K1 == cooldownLeaveRoom(K, c)
                     K2 == [K1 EXCEPT !.players[c] = CooldownSpawn(@, roomId, spawn)]
                     K3 == IF HasRoom(K2.rooms, roomId)
                           THEN [K2 EXCEPT !.rooms[RoomIndex(K2.rooms, roomId)].players =
                                               Append(@, c)]
                           ELSE K2
                 IN cooldownBroadcastLobby(cooldownSendRoomState(K3, roomId))

\* the handlers start with no message sent; closing holds the socket that fires
\* its close event, none in a message handler
Calm(closing) == [ players |-> cooldown.players, rooms |-> cooldown.rooms,
                   opened |-> cooldown.opened, out |-> <<>>, closing |-> closing ]

CooldownCommit(K) ==
    /\ cooldown' = [ players |-> K.players, rooms |-> K.rooms,
                     opened |-> K.opened, out |-> K.out ]
    /\ UNCHANGED <<players, rooms, now, lastTickAt, ticks, conns, gens, sent, ev, lobby, hitscan>>

\* wss.on("connection")
CooldownConnection ==
    /\ cooldown.opened < Len(CooldownIdPool)
    /\ LET id == CooldownIdPool[cooldown.opened + 1]
       IN CooldownCommit(cooldownSend([Calm({}) EXCEPT !.opened = @ + 1,
                                                       !.players = @ @@ (id :> createPlayer(id))],
                                      id, "welcome", [ id |-> id ]))

\* case "login": name.slice(0, 16) of the names the model feeds in is the name
CooldownLogin(c, name) ==
    CooldownCommit(cooldownSend([Calm({}) EXCEPT !.players[c].name = name],
                                c, "lobby", [ rooms |-> getRoomSummaries(Calm({})) ]))

\* case "requestLobby"
CooldownRequestLobby(c) ==
    CooldownCommit(cooldownSend(Calm({}), c, "lobby", [ rooms |-> getRoomSummaries(Calm({})) ]))

CooldownCreateRoom(c, roomId, maxPlayers, timeLimitSec, password, spawn) ==
    CooldownCommit(cooldownCreateRoom(Calm({}), c, roomId, maxPlayers, timeLimitSec,
                                      password, spawn))

CooldownJoinRoom(c, roomId, password, spawn) ==
    CooldownCommit(cooldownJoinRoom(Calm({}), c, roomId, password, spawn))

\* case "leaveRoom"
CooldownLeaveRoom(c) ==
    LET K1 == cooldownLeaveRoom(Calm({}), c)
    IN CooldownCommit(cooldownSend(K1, c, "lobby", [ rooms |-> getRoomSummaries(K1) ]))

\* socket.on("close")
CooldownClose(c) ==
    LET K1 == cooldownLeaveRoom(Calm({c}), c)
    IN CooldownCommit(cooldownBroadcastLobby(
           [K1 EXCEPT !.players = [q \in DOMAIN @ \ {c} |-> @[q]]]))

-----------------------------------------------------------------------------
(* Inputs and specifications.                                              *)

\* Math.random() draws of the spawn: points of [150, 350) x [150, 350)
SpawnPts == { Vec(SPAWN_MIN, SPAWN_MIN), Vec(SPAWN_MIN + 50, SPAWN_MIN) }

RoomIdInputs == { "", " r1 " }
JoinIdInputs == { "r1", "g1" }
MaxPlayersInputs == { Halves(1) }
TimeLimitInputs == { 1 }
PasswordInputs == { "", "pw" }
JoinPasswordInputs == { "", " pw" }
LobbySpawnPts == { Vec(SPAWN_MIN, SPAWN_MIN) }

Init ==
    /\ players = <<>>
    /\ rooms = <<>>
    /\ now = StartMs
    /\ lastTickAt = StartMs
    /\ ticks = 0
    /\ conns = 0
    /\ gens = 0
    /\ sent = <<>>
    /\ ev = Event("start", "")
    /\ lobby = LobbyStart
    /\ hitscan = HitscanStart
    /\ cooldown = CooldownStart

\* the room registry: connections, rooms, passwords, membership
NextRooms ==
    \/ Connect(3)
    \/ \E pid \in DOMAIN players : Close(pid)
    \/ \E pid \in DOMAIN players : JoinLobby(pid)
    \/ \E pid \in DOMAIN players, id \in RoomIdInputs, mp \in MaxPlayersInputs,
          tl \in TimeLimitInputs, pw \in PasswordInputs, sp \in LobbySpawnPts :
          CreateRoom(pid, id, mp, tl, pw, sp)
    \/ \E pid \in DOMAIN players, id \in JoinIdInputs, pw \in JoinPasswordInputs,
          sp \in LobbySpawnPts :
          JoinRoom(pid, id, pw, sp)

SpecRooms == Init /\ [][NextRooms]_vars

\* the match: two connections, two rooms without passwords, and a clock that
\* jumps by the shortest time limit, so that rooms end
NextMatch ==
    \/ Connect(2)
    \/ \E pid \in DOMAIN players : Close(pid)
    \/ \E pid \in DOMAIN players : JoinLobby(pid)
    \/ \E pid \in DOMAIN players, id \in RoomIdInputs, mp \in MaxPlayersInputs,
          tl \in TimeLimitInputs, sp \in LobbySpawnPts :
          CreateRoom(pid, id, mp, tl, "", sp)
    \/ \E pid \in DOMAIN players, id \in JoinIdInputs, sp \in LobbySpawnPts :
          JoinRoom(pid, id, "", sp)
    \/ \E d \in { MIN_TIME_LIMIT * 1000 } : Advance(d, MaxMatchTicks)
    \/ \E spawns \in [WillRespawn(now) -> LobbySpawnPts] : Tick(spawns)

SpecMatch == Init /\ [][NextMatch]_vars

\* payload.message of chat
ChatInputs == { "hi", " " }

\* the rooms with chat messages from every connection
NextChat ==
    \/ NextRooms
    \/ \E pid \in DOMAIN players, m \in ChatInputs : Chat(pid, m)

SpecChat == Init /\ [][NextChat]_vars

\* the end of the match: two connections, one room id that is created, joined,
\* left and created again, shots, and the same clock
NextEnd ==
    \/ Connect(2)
    \/ \E pid \in DOMAIN players : Close(pid)
    \/ \E pid \in DOMAIN players : JoinLobby(pid)
    \/ \E pid \in DOMAIN players, mp \in MaxPlayersInputs, tl \in TimeLimitInputs,
          sp \in LobbySpawnPts :
          CreateRoom(pid, " r1 ", mp, tl, "", sp)
    \/ \E pid \in DOMAIN players, sp \in LobbySpawnPts : JoinRoom(pid, "r1", "", sp)
    \/ \E pid \in DOMAIN players :
          /\ \A i \in DOMAIN rooms : Len(rooms[i].bullets) < MaxMatchBullets
          /\ Shoot(pid, DirInput(Vec(1, 0)))
    \/ \E d \in { MIN_TIME_LIMIT * 1000 } : Advance(d, MaxMatchTicks)
    \/ \E spawns \in [WillRespawn(now) -> LobbySpawnPts] : Tick(spawns)

SpecEnd == Init /\ [][NextEnd]_vars

\* the first connection shoots to the right, the others to the left
ShootDir(pid) == IF pid = PlayerIdPool[1] THEN Vec(1, 0) ELSE Vec(-1, 0)

SomeoneIsDown == \E pid \in DOMAIN players : IsSome(players[pid].respawnAt)

CombatMaxPlayers == { Halves(MIN_PLAYERS + 1) }
CombatJoinPts == { Vec(SPAWN_MIN + 50, SPAWN_MIN) }

\* the combat: the first connection creates a room with a free slot, the second
\* joins it to its right on the same horizontal line, and they shoot at each
\* other; the clock starts once both are in, and moves by the shot cooldown, or
\* by the respawn delay once a player is down; a player joins from the lobby or
\* while its respawnAt is set
NextCombat ==
    \/ Connect(2)
    \/ \E pid \in { PlayerIdPool[1] }, mp \in CombatMaxPlayers, tl \in TimeLimitInputs,
          sp \in LobbySpawnPts :
          /\ rooms = <<>>
          /\ CreateRoom(pid, " r1 ", mp, tl, "", sp)
    \/ \E pid \in DOMAIN players, sp \in CombatJoinPts :
          /\ players[pid].roomId = None \/ IsSome(players[pid].respawnAt)
          /\ JoinRoom(pid, "r1", "", sp)
    \/ \E pid \in DOMAIN players : Shoot(pid, DirInput(ShootDir(pid)))
    \/ \E d \in { SHOOT_COOLDOWN_MS, RESPAWN_MS } :
          /\ d = RESPAWN_MS => SomeoneIsDown
          /\ conns = 2 /\ \A pid \in DOMAIN players : players[pid].roomId # None
          /\ Advance(d, MaxTicks)
    \/ \E spawns \in [WillRespawn(now) -> SpawnPts] : Tick(spawns)

SpecCombat == Init /\ [][NextCombat]_vars

\* a bullet of shooter pid is in flight
HasBulletOf(pid) ==
    \E i \in DOMAIN rooms : \E j \in DOMAIN rooms[i].bullets :
       rooms[i].bullets[j].shooterId = pid

\* the combat with connections that close while their bullet is in flight: the
\* clock moves by the shot cooldown while a bullet is on its way
NextHits ==
    \/ Connect(2)
    \/ \E pid \in { PlayerIdPool[1] }, mp \in CombatMaxPlayers, tl \in TimeLimitInputs,
          sp \in LobbySpawnPts :
          /\ rooms = <<>>
          /\ CreateRoom(pid, " r1 ", mp, tl, "", sp)
    \/ \E pid \in DOMAIN players, sp \in CombatJoinPts :
          /\ players[pid].roomId = None
          /\ JoinRoom(pid, "r1", "", sp)
    \/ \E pid \in DOMAIN players : Shoot(pid, DirInput(ShootDir(pid)))
    \/ \E pid \in DOMAIN players : HasBulletOf(pid) /\ Close(pid)
    \/ \E d \in { SHOOT_COOLDOWN_MS } :
          /\ \E i \in DOMAIN rooms : rooms[i].bullets # <<>>
          /\ Advance(d, MaxHitTicks)
    \/ \E spawns \in [WillRespawn(now) -> SpawnPts] : Tick(spawns)

SpecHits == Init /\ [][NextHits]_vars

\* the way down and back: the first connection creates the room and shoots, the
\* second joins and is shot; while a player is down the clock moves by the
\* respawn delay or jumps to the end of the match
NextRespawn ==
    \/ Connect(2)
    \/ \E pid \in { PlayerIdPool[1] }, mp \in CombatMaxPlayers, tl \in TimeLimitInputs,
          sp \in LobbySpawnPts :
          /\ rooms = <<>>
          /\ CreateRoom(pid, " r1 ", mp, tl, "", sp)
    \/ \E pid \in DOMAIN players, sp \in CombatJoinPts :
          /\ players[pid].roomId = None
          /\ JoinRoom(pid, "r1", "", sp)
    \/ \E pid \in DOMAIN players \cap { PlayerIdPool[1] } :
          Shoot(pid, DirInput(ShootDir(pid)))
    \/ \E d \in { SHOOT_COOLDOWN_MS, RESPAWN_MS, MIN_TIME_LIMIT * 1000 } :
          /\ d # SHOOT_COOLDOWN_MS => SomeoneIsDown
          /\ conns = 2 /\ \A pid \in DOMAIN players : players[pid].roomId # None
          /\ Advance(d, MaxTicks)
    \/ \E spawns \in [WillRespawn(now) -> SpawnPts] : Tick(spawns)

SpecRespawn == Init /\ [][NextRespawn]_vars

\* the combat with move messages from the second player while it is in the lobby
\* or down
DownMoveDir == Vec(1, 0)

NextDownMove ==
    \/ NextCombat
    \/ \E pid \in DOMAIN players \ { PlayerIdPool[1] } :
          /\ players[pid].roomId = None \/ InRespawnWait(players[pid], now)
          /\ players[pid].pendingMove = None
          /\ Move(pid, DirInput(DownMoveDir))

SpecDownMove == Init /\ [][NextDownMove]_vars

\* the bullets in flight, of all rooms
AllBullets(rs) == UNION { SeqToSet(rs[i].bullets) : i \in DOMAIN rs }

\* the directions of the shots of the flight: to the near wall and to the far one
BulletDirs == { Vec(-1, 0), Vec(1, 0) }

\* the flight of the bullets: one connection creates a room and shoots to the
\* left, where the bullet leaves the arena, and to the right, where it outlives
\* its time, one bullet at a time each way; while a bullet is in flight the
\* clock moves by the shot cooldown, by the respawn delay or to the end of the
\* match
NextBullets ==
    \/ Connect(1)
    \/ \E pid \in DOMAIN players, mp \in MaxPlayersInputs, tl \in TimeLimitInputs,
          sp \in LobbySpawnPts :
          /\ rooms = <<>>
          /\ CreateRoom(pid, " r1 ", mp, tl, "", sp)
    \/ \E pid \in DOMAIN players, d \in BulletDirs :
          /\ \A b \in AllBullets(rooms) : b.vx # d.x * BULLET_SPEED
          /\ Shoot(pid, DirInput(d))
    \/ \E d \in { SHOOT_COOLDOWN_MS, RESPAWN_MS, MIN_TIME_LIMIT * 1000 } :
          /\ \E i \in DOMAIN rooms : rooms[i].bullets # <<>>
          /\ Advance(d, MaxBulletTicks)
    \/ \E spawns \in [WillRespawn(now) -> LobbySpawnPts] : Tick(spawns)

SpecBullets == Init /\ [][NextBullets]_vars

CrowdMaxPlayers == { Halves(MIN_PLAYERS + 1) }
\* the second connection spawns nearer to the first than the third does
CrowdJoinPt(pid) ==
    IF pid = PlayerIdPool[2] THEN Vec(SPAWN_MIN + 50, SPAWN_MIN)
    ELSE Vec(SPAWN_MIN + 55, SPAWN_MIN)

\* the crowd: the first connection creates a room for three and shoots to the
\* right, one bullet at a time, standing or walking behind its bullet; the two
\* others join within reach of the bullet's first step, in either order, and the
\* third leaves for the lobby; the clock moves by the shot cooldown
NextCrowd ==
    \/ Connect(3)
    \/ \E pid \in { PlayerIdPool[1] }, mp \in CrowdMaxPlayers, tl \in TimeLimitInputs,
          sp \in LobbySpawnPts :
          /\ rooms = <<>>
          /\ CreateRoom(pid, " r1 ", mp, tl, "", sp)
    \/ \E pid \in DOMAIN players \ { PlayerIdPool[1] } :
          /\ players[pid].roomId = None
          /\ JoinRoom(pid, "r1", "", CrowdJoinPt(pid))
    \/ \E pid \in { PlayerIdPool[3] } \cap DOMAIN players :
          /\ players[pid].roomId # None
          /\ JoinLobby(pid)
    \/ \E pid \in { PlayerIdPool[1] } \cap DOMAIN players :
          /\ players[pid].pendingMove = None
          /\ Move(pid, DirInput(Vec(1, 0)))
    \/ \E pid \in { PlayerIdPool[1] } \cap DOMAIN players :
          /\ AllBullets(rooms) = {}
          /\ Shoot(pid, DirInput(Vec(1, 0)))
    \/ \E d \in { SHOOT_COOLDOWN_MS } :
          /\ AllBullets(rooms) # {}
          /\ Advance(d, MaxCrowdTicks)
    \/ \E spawns \in [WillRespawn(now) -> LobbySpawnPts] : Tick(spawns)

SpecCrowd == Init /\ [][NextCrowd]_vars

\* close enough to the left wall for a bullet shot at it to leave the arena in
\* its first or second step
NearLeftWall(p) == p.x <= 2 * HIT_RADIUS

\* the wall: two connections spawn at the same point and set off to the left
\* wall before the first tick, by direction, by click target or by both; near
\* the wall they shoot at it, one bullet at a time; the tick runs every TICK_MS,
\* and the clock may jump to the end of the match
NextEdge ==
    \/ Connect(2)
    \/ \E pid \in { PlayerIdPool[1] }, mp \in MaxPlayersInputs, tl \in TimeLimitInputs,
          sp \in LobbySpawnPts :
          /\ rooms = <<>>
          /\ CreateRoom(pid, " r1 ", mp, tl, "", sp)
    \/ \E pid \in DOMAIN players, sp \in LobbySpawnPts :
          /\ players[pid].roomId = None
          /\ JoinRoom(pid, "r1", "", sp)
    \/ \E pid \in DOMAIN players :
          /\ ticks = 0 /\ players[pid].roomId # None /\ players[pid].pendingMove = None
          /\ Move(pid, DirInput(Vec(-1, 0)))
    \/ \E pid \in DOMAIN players :
          /\ ticks = 0 /\ players[pid].roomId # None /\ players[pid].pendingTarget = None
          /\ Move(pid, TargetInput(Vec(0, players[pid].y)))
    \/ \E pid \in DOMAIN players :
          /\ NearLeftWall(players[pid])
          /\ AllBullets(rooms) = {}
          /\ Shoot(pid, DirInput(Vec(-1, 0)))
    \/ \E d \in { TICK_MS, MIN_TIME_LIMIT * 1000 } :
          /\ conns = 2 /\ \A pid \in DOMAIN players : players[pid].roomId # None
          /\ d # TICK_MS => \E pid \in DOMAIN players : NearLeftWall(players[pid])
          /\ Advance(d, MaxEdgeTicks)
    \/ \E spawns \in [WillRespawn(now) -> LobbySpawnPts] : Tick(spawns)

SpecEdge == Init /\ [][NextEdge]_vars

\* click targets on the line of the spawn point: one unit, one step and one
\* unit, and several steps to the left of it
ClickTargets ==
    { Vec(SPAWN_MIN - 1, SPAWN_MIN), Vec(SPAWN_MIN - MOVE_SPEED - 1, SPAWN_MIN),
      Vec(SPAWN_MIN - 2 * MOVE_SPEED, SPAWN_MIN) }
ClickDirs == { Vec(-1, 0), Vec(1, 0) }

\* the click move: one connection creates a room and sends move messages with
\* a direction, then with a target, and stopMove messages; the tick runs every
\* TICK_MS
NextClick ==
    \/ Connect(1)
    \/ \E pid \in DOMAIN players, mp \in MaxPlayersInputs, tl \in TimeLimitInputs,
          sp \in LobbySpawnPts :
          /\ rooms = <<>>
          /\ CreateRoom(pid, " r1 ", mp, tl, "", sp)
    \/ \E pid \in DOMAIN players, tg \in ClickTargets : Move(pid, TargetInput(tg))
    \/ \E pid \in DOMAIN players, d \in ClickDirs :
          /\ players[pid].pendingTarget = None
          /\ Move(pid, DirInput(d))
    \/ \E pid \in DOMAIN players : StopMove(pid)
    \/ \E d \in { TICK_MS } :
          /\ rooms # <<>>
          /\ Advance(d, MaxClickTicks)
    \/ \E spawns \in [WillRespawn(now) -> LobbySpawnPts] : Tick(spawns)

SpecClick == Init /\ [][NextClick]_vars

\* the shots: one connection creates a room and shoots to the right or at the
\* point it stands on; the clock moves by the shot cooldown
NextShot ==
    \/ Connect(1)
    \/ \E pid \in DOMAIN players, mp \in MaxPlayersInputs, tl \in TimeLimitInputs,
          sp \in LobbySpawnPts :
          /\ rooms = <<>>
          /\ CreateRoom(pid, " r1 ", mp, tl, "", sp)
    \/ \E pid \in DOMAIN players : Shoot(pid, DirInput(Vec(1, 0)))
    \/ \E pid \in DOMAIN players :
          Shoot(pid, TargetInput(Vec(players[pid].x, players[pid].y)))
    \/ \E d \in { SHOOT_COOLDOWN_MS } :
          /\ rooms # <<>>
          /\ Advance(d, MaxShotTicks)
    \/ \E spawns \in [WillRespawn(now) -> LobbySpawnPts] : Tick(spawns)

SpecShot == Init /\ [][NextShot]_vars

\* the spawn points of the movement: the corners of the spawn square nearest to
\* the left and to the bottom wall
MoveSpawnPts ==
    { Vec(SPAWN_MIN, SPAWN_MIN),
      Vec(SPAWN_MIN + SPAWN_SPAN - 1, SPAWN_MIN + SPAWN_SPAN - 1) }

\* a player spawned at the first corner walks left, one spawned at the other
\* walks down; its click target lies on that line, beyond the wall
WalkDir(p) == IF p.y = SPAWN_MIN THEN Vec(-1, 0) ELSE Vec(0, 1)
BeyondWall(p) == Vec(p.x + WalkDir(p).x * MAP_W, p.y + WalkDir(p).y * MAP_W)

\* the movement: one connection creates a room and walks, by direction, by click
\* target or by both; once the room is there, the tick runs every TICK_MS
NextMove ==
    \/ Connect(1)
    \/ \E pid \in DOMAIN players, mp \in MaxPlayersInputs, tl \in TimeLimitInputs,
          sp \in MoveSpawnPts :
          /\ rooms = <<>>
          /\ CreateRoom(pid, " r1 ", mp, tl, "", sp)
    \/ \E pid \in DOMAIN players : Move(pid, DirInput(WalkDir(players[pid])))
    \/ \E pid \in DOMAIN players : Move(pid, TargetInput(BeyondWall(players[pid])))
    \/ \E pid \in DOMAIN players : StopMove(pid)
    \/ \E d \in { TICK_MS } :
          /\ rooms # <<>>
          /\ Advance(d, MaxMoveTicks)
    \/ \E spawns \in [WillRespawn(now) -> MoveSpawnPts] : Tick(spawns)

SpecMove == Init /\ [][NextMove]_vars

\* the joins: three connections and one room id, created with and without a
\* password, for two players and for two and a half; joinRoom messages
\* carry the padded id or a blank one
BlankJoinIdInputs == { " ", " r1 " }
FractionMaxPlayers == { Halves(MIN_PLAYERS) + 1 }

NextJoin ==
    \/ Connect(3)
    \/ \E pid \in DOMAIN players : Close(pid)
    \/ \E pid \in DOMAIN players : JoinLobby(pid)
    \/ \E pid \in DOMAIN players, mp \in MaxPlayersInputs \cup FractionMaxPlayers,
          tl \in TimeLimitInputs, pw \in PasswordInputs, sp \in LobbySpawnPts :
          CreateRoom(pid, " r1 ", mp, tl, pw, sp)
    \/ \E pid \in DOMAIN players, id \in BlankJoinIdInputs, pw \in JoinPasswordInputs,
          sp \in LobbySpawnPts :
          JoinRoom(pid, id, pw, sp)

SpecJoin == Init /\ [][NextJoin]_vars

\* the team lobby: two connections in turn, one room id (a room is created
\* while no room exists), named and unnamed guests, both teams
PairOfSids == << "s1", "s2" >>
NameInputs == { "", "ann" }
RoomNameInputs == { " ", "room" }
LobbyJoinIdInputs == { "", "t1" }
TeamInputs == { None, Some("A"), Some("B") }

NextLobby ==
    \/ OnConnection(PairOfSids)
    \/ \E c \in DOMAIN lobby.connections : OnClose(c)
    \/ \E c \in DOMAIN lobby.connections, name \in NameInputs : HELLO(c, name)
    \/ \E c \in DOMAIN lobby.connections : PING(c)
    \/ \E c \in DOMAIN lobby.connections, name \in RoomNameInputs, id \in LobbyRoomIdPool :
          CREATE_ROOM(c, name, id)
    \/ \E c \in DOMAIN lobby.connections, id \in LobbyJoinIdInputs : JOIN_ROOM(c, id)
    \/ \E c \in DOMAIN lobby.connections : LEAVE_ROOM(c)
    \/ \E c \in DOMAIN lobby.connections, team \in TeamInputs : SET_TEAM(c, team)
    \/ \E c \in DOMAIN lobby.connections, ready \in BOOLEAN : SET_READY(c, ready)

SpecLobby == Init /\ [][NextLobby]_vars

\* the connections that ask for a team: one more than a team takes
TeamSeekers == { "s1", "s2", "s3", "s4", "s5" }

\* every connection accepted so far has said HELLO and is in a room
AllSeated ==
    \A c \in DOMAIN lobby.connections :
       lobby.connections[c].hasHello /\ lobby.connections[c].roomId # None

\* the full house: connections arrive one after the other, say HELLO once and
\* sit down in the one room, which the first of them creates; the ninth finds it
\* full; the first five ask for team A, for team B or for none, at any time
NextFullHouse ==
    \/ AllSeated /\ OnConnection(SidPool)
    \/ \E c \in DOMAIN lobby.connections, name \in { "ann" } :
          /\ ~lobby.connections[c].hasHello
          /\ HELLO(c, name)
    \/ \E c \in DOMAIN lobby.connections, name \in { "room" }, id \in LobbyRoomIdPool :
          /\ lobby.rooms = <<>>
          /\ CREATE_ROOM(c, name, id)
    \/ \E c \in DOMAIN lobby.connections, id \in LobbyRoomIdPool :
          /\ lobby.connections[c].hasHello /\ lobby.connections[c].roomId = None
          /\ lobby.rooms # <<>>
          /\ JOIN_ROOM(c, id)
    \/ \E c \in DOMAIN lobby.connections \cap TeamSeekers, team \in TeamInputs :
          SET_TEAM(c, team)

SpecFullHouse == Init /\ [][NextFullHouse]_vars

\* the hitscan server: two connections, one room of the shortest time limit,
\* the spawn points of the two on one line within HIT_RADIUS of the ray, shots
\* along the line; the clock moves by the shot cooldown after a shot and over
\* the time limit; the first connection shoots, the second sends a click move
\* before the first tick; a member leaves for the lobby before its first shot
\* or hit
MaxHitscanTicks == 2
MaxHitscanShots == 5
HitscanClockEnd == StartMs + MIN_TIME_LIMIT * 1000 + (MaxHitscanShots - 1) * SHOOT_COOLDOWN_MS
\* Math.random() draws of the spawn: points of [100, 300) x [100, 300)
HitscanSpawn(pid) ==
    IF pid = HitscanIdPool[1]
    THEN Vec(HITSCAN_SPAWN_MIN + 50, HITSCAN_SPAWN_MIN + 50)
    ELSE Vec(HITSCAN_SPAWN_MIN + 150, HITSCAN_SPAWN_MIN + 50)
HitscanShots == { DirInput(Vec(1, 0)) }
\* a member that has not shot and has not been hit since it joined
Untouched(p) == p.ammo = FULL_AMMO /\ p.hp = FULL_HP

NextHitscan ==
    \/ HitscanConnection
    \/ \E pid \in DOMAIN hitscan.players : HitscanClose(pid)
    \/ \E pid \in DOMAIN hitscan.players :
          /\ hitscan.players[pid].roomId # None
          /\ Untouched(hitscan.players[pid])
          /\ HitscanJoinLobby(pid)
    \/ \E pid \in DOMAIN hitscan.players :
          /\ hitscan.rooms = <<>>
          /\ HitscanCreateRoom(pid, "", DEFAULT_MAX_PLAYERS, MIN_TIME_LIMIT, "",
                               HitscanSpawn(pid))
    \/ \E pid \in DOMAIN hitscan.players :
          /\ hitscan.players[pid].roomId = None
          /\ HitscanJoinRoom(pid, HitscanRoomIdPool[1], "", HitscanSpawn(pid))
    \/ \E pid \in DOMAIN hitscan.players :
          /\ hitscan.players[pid].pendingTarget # None
          /\ HitscanStopMove(pid)
    \/ \E pid \in DOMAIN hitscan.players :
          /\ hitscan.players[pid].roomId # None
          /\ hitscan.players[pid].pendingTarget = None
          /\ hitscan.ticks = 0
          /\ pid = HitscanIdPool[2]
          /\ HitscanMove(pid, TargetInput(Vec(hitscan.players[pid].x + 1,
                                              hitscan.players[pid].y)))
    \/ \E pid \in DOMAIN hitscan.players, input \in HitscanShots :
          /\ hitscan.players[pid].roomId # None
          /\ pid = HitscanIdPool[1]
          /\ HitscanShoot(pid, input)
    \/ HitscanTick([id \in DOMAIN hitscan.players |-> HitscanSpawn(id)], MaxHitscanTicks)
    \/ \E d \in { SHOOT_COOLDOWN_MS } :
          /\ \E pid \in DOMAIN hitscan.players : hitscan.players[pid].lastShootAt = hitscan.now
          /\ HitscanAdvance(d, HitscanClockEnd)
    \/ \E d \in { MIN_TIME_LIMIT * 1000 } :
          /\ hitscan.rooms # <<>>
          /\ HitscanAdvance(d, HitscanClockEnd)

SpecHitscan == Init /\ [][NextHitscan]_vars

\* the room registry of the cooldown server: two connections, two room ids, a
\* room with and without password
CooldownRoomIds == { "a", "b" }
CooldownPasswords == { None, Some("pw") }
CooldownSpawnPts == { Vec(80, 80) }
CooldownMaxPlayers == { 2 }
CooldownTimeLimits == { 60 }

NextCooldown ==
    \/ CooldownConnection
    \/ \E c \in DOMAIN cooldown.players : CooldownClose(c)
    \/ \E c \in DOMAIN cooldown.players, name \in { "ann" } :
          /\ cooldown.players[c].name # name
          /\ CooldownLogin(c, name)
    \/ \E c \in DOMAIN cooldown.players : CooldownRequestLobby(c)
    \/ \E c \in DOMAIN cooldown.players, id \in CooldownRoomIds,
          maxPlayers \in CooldownMaxPlayers, timeLimitSec \in CooldownTimeLimits,
          password \in CooldownPasswords, spawn \in CooldownSpawnPts :
          CooldownCreateRoom(c, id, maxPlayers, timeLimitSec, password, spawn)
    \/ \E c \in DOMAIN cooldown.players, id \in CooldownRoomIds,
          password \in CooldownPasswords, spawn \in CooldownSpawnPts :
          CooldownJoinRoom(c, id, password, spawn)
    \/ \E c \in DOMAIN cooldown.players : CooldownLeaveRoom(c)

SpecCooldown == Init /\ [][NextCooldown]_vars

-----------------------------------------------------------------------------
(* Properties of the room registry.                                        *)

RoomOf(id) == GetRoom(rooms, id)
Members(room) == SeqToSet(room.playerIds)

\* the password a joinRoom message carries, after the handler's trim
JoinPassword(raw) == IF trim(raw) = "" THEN None ELSE Some(trim(raw))

ErrorTo(pid, text) == << Msg(pid, "error", [ message |-> text ]) >>

\* a joinRoom step that names a room whose member count equals maxPlayers
JoinOfFullRoom(pid, id, pw, sp) ==
    /\ JoinRoom(pid, id, pw, sp)
    /\ HasRoom(rooms, trim(id))
    /\ Halves(Len(RoomOf(trim(id)).playerIds)) = RoomOf(trim(id)).maxPlayers

\* C1 as claimed: joining a room whose member count equals maxPlayers always
\* fails with the room-full error, sent to the requester only, and changes
\* neither registry.
C1_FullRoomAlwaysRoomFull ==
    [][ \A pid \in DOMAIN players, id \in JoinIdInputs, pw \in JoinPasswordInputs,
           sp \in LobbySpawnPts :
           JoinOfFullRoom(pid, id, pw, sp) =>
               /\ sent' = ErrorTo(pid, "Room is full.")
               /\ rooms' = rooms
               /\ players' = players ]_vars

\* C1 (amended): joining a room whose member count equals maxPlayers always
\* fails with exactly one error sent to the requester only - the room-full error
\* when the password check passes, the invalid-password error when the room is
\* password-protected and the supplied password differs - and leaves the room's
\* member set, the requester's roomId and every other room unchanged.
C1_FullRoomJoinFails ==
    [][ \A pid \in DOMAIN players, id \in JoinIdInputs, pw \in JoinPasswordInputs,
           sp \in LobbySpawnPts :
           JoinOfFullRoom(pid, id, pw, sp) =>
               /\ sent' = IF PasswordMismatch(RoomOf(trim(id)), JoinPassword(pw))
                          THEN ErrorTo(pid, "Invalid password.")
                          ELSE ErrorTo(pid, "Room is full.")
               /\ rooms' = rooms
               /\ players' = players ]_vars

\* a lobby player was just refused by a full room
C1_Witness ==
    \E pid \in DOMAIN players :
        /\ ev.op = "joinRoom" /\ ev.who = pid
        /\ sent = ErrorTo(pid, "Room is full.")
        /\ players[pid].roomId = None
        /\ \E i \in DOMAIN rooms : Halves(Len(rooms[i].playerIds)) = rooms[i].maxPlayers

\* C3: once a connection's close handler has run, the player's id is absent from
\* the players registry and from every room's member set, and the slot it held
\* is free: if its room was full before the close and still exists, a joinRoom
\* that follows, from another player outside that room with a password the room
\* accepts, puts that player into the room.
C3_CloseFreesSlot ==
    [][ \A pid \in DOMAIN players :
           Close(pid) =>
               /\ pid \notin DOMAIN players'
               /\ \A i \in DOMAIN rooms' : pid \notin Members(rooms'[i])
               /\ \A r \in MemberRooms(rooms, pid) :
                     (RoomIsFull(RoomOf(r)) /\ HasRoom(rooms', r)) =>
                        \A q \in DOMAIN players', pw \in JoinPasswordInputs,
                           sp \in LobbySpawnPts :
                           ( /\ q \notin Members(GetRoom(rooms', r))
                             /\ ~PasswordMismatch(GetRoom(rooms', r), JoinPassword(pw)) )
                           => LET S == joinRoom(Store(players', rooms', <<>>), q, r,
                                                JoinPassword(pw), sp, now')
                              IN /\ HasRoom(S.rooms, r)
                                 /\ q \in Members(GetRoom(S.rooms, r))
                                 /\ S.players[q].roomId = Some(r) ]_vars

\* a member of a full room has just closed, the room still exists, and another
\* player is connected to take the slot
C3_Witness ==
    /\ ev.op = "close"
    /\ \E r \in ev.left :
          /\ HasRoom(rooms, r)
          /\ Halves(Len(RoomOf(r).playerIds) + 1) = RoomOf(r).maxPlayers
          /\ \E q \in DOMAIN players : q \notin Members(RoomOf(r))

\* C4: every player id is in the member set of at most one room.
C4_AtMostOneRoom ==
    \A pid \in SeqToSet(PlayerIdPool) : Cardinality(MemberRooms(rooms, pid)) <= 1

\* a player has just moved from one room, which still exists, into another
C4_Witness ==
    \E pid \in DOMAIN players :
        /\ ev.op = "joinRoom" /\ ev.who = pid
        /\ \E r \in ev.left : HasRoom(rooms, r)
        /\ MemberRooms(rooms, pid) # {}
        /\ MemberRooms(rooms, pid) \cap ev.left = {}

\* the room ids a lobby message lists
ListedIds(m) == {m.payload.rooms[k].id : k \in DOMAIN m.payload.rooms}

\* C10: when the only member of a room leaves it (leaveRoom or requestLobby,
\* joining another room, or close), the room is removed from the registry in
\* that operation and no lobby listing sent in it names the room; and the last
\* lobby listing of any operation lists the rooms of the registry and no other,
\* so that later listings omit the room.
C10_LastLeaveDeletesRoom ==
    [][ /\ \A pid \in DOMAIN players, r \in RoomIds(rooms) :
              ( /\ Members(RoomOf(r)) = {pid}
                /\ \/ Close(pid)
                   \/ JoinLobby(pid)
                   \/ \E id \in JoinIdInputs \ {r}, pw \in JoinPasswordInputs,
                         sp \in LobbySpawnPts :
                         /\ JoinRoom(pid, id, pw, sp)
                         /\ HasRoom(rooms', id)
                         /\ pid \in Members(GetRoom(rooms', id)) )
              => /\ ~HasRoom(rooms', r)
                 /\ \A i \in DOMAIN sent' :
                       sent'[i].type = "lobby" => r \notin ListedIds(sent'[i])
        /\ \A i \in DOMAIN sent' :
              ( /\ sent'[i].type = "lobby"
                /\ \A j \in DOMAIN sent' : j > i => sent'[j].type # "lobby" )
              => ListedIds(sent'[i]) = RoomIds(rooms') ]_vars

\* the only member of a room has just left it, and lobby listings went out
C10_Witness ==
    /\ ev.op \in {"close", "joinLobby", "joinRoom"}
    /\ \E r \in ev.left : ~HasRoom(rooms, r)
    /\ \E i \in DOMAIN sent : sent[i].type = "lobby"

-----------------------------------------------------------------------------
(* Properties of the match.                                                *)

\* C2: after every message handler, close handler and tick, every room of the
\* registry has at least one member.
C2_NoEmptyRoom ==
    \A i \in DOMAIN rooms : Len(rooms[i].playerIds) >= 1

\* the last member of a room has just gone, in a createRoom, a joinRoom, a
\* joinLobby or a close, and the room went with it while another room stays
C2_Witness ==
    /\ ev.op \in {"createRoom", "joinRoom", "joinLobby", "close"}
    /\ \E r \in ev.left : ~HasRoom(rooms, r)
    /\ rooms # <<>>

\* how many messages of a type the last operation sent to a connection
SentCount(out, to, type) ==
    Cardinality({i \in DOMAIN out : out[i].to = to /\ out[i].type = type})

\* how often room r is among the leaderboard broadcasts of a tick
BoardCount(boards, r) == Cardinality({i \in DOMAIN boards : boards[i] = r})

IsTickStep == ev'.op = "tick" /\ ticks' = ticks + 1

\* C8: a room gets exactly one leaderboard broadcast, in the first tick whose now
\* is at or after its endsAt: a tick broadcasts the leaderboard of a room (one
\* message to each member) exactly when the room has not ended and now >= endsAt,
\* and sets ended; ended never goes back to false for that room; a room that has
\* not ended has seen no tick at or after its endsAt; and nothing but a tick
\* sends a leaderboard.
C8_OneLeaderboard ==
    /\ [](\A i \in DOMAIN rooms : ~rooms[i].ended => lastTickAt < rooms[i].endsAt)
    /\ [][ /\ IsTickStep =>
                /\ \A i \in DOMAIN rooms :
                      LET due == ~rooms[i].ended /\ now >= rooms[i].endsAt
                      IN /\ BoardCount(ev'.boards, rooms[i].id) = (IF due THEN 1 ELSE 0)
                         /\ due => GetRoom(rooms', rooms[i].id).ended
                /\ \A pid \in DOMAIN players :
                      SentCount(sent', pid, "leaderboard") =
                         Cardinality({r \in MemberRooms(rooms, pid) :
                                         BoardCount(ev'.boards, r) = 1})
           /\ ~IsTickStep =>
                 \A i \in DOMAIN sent' : sent'[i].type # "leaderboard"
           /\ \A i \in DOMAIN rooms :
                 ( /\ rooms[i].ended
                   /\ HasRoom(rooms', rooms[i].id)
                   /\ GetRoom(rooms', rooms[i].id).createdAt = rooms[i].createdAt )
                 => GetRoom(rooms', rooms[i].id).ended ]_vars

\* a tick has run on a room that had already ended, after a shot in that room,
\* and sent no leaderboard
C8_Witness ==
    /\ ev.op = "tick"
    /\ ev.boards = <<>>
    /\ \E i \in DOMAIN rooms :
          /\ rooms[i].ended
          /\ lastTickAt > rooms[i].endsAt
          /\ rooms[i].bullets # <<>>

-----------------------------------------------------------------------------
(* Properties of the combat.                                               *)

\* the bullets of room id, none when the registry does not hold it
BulletsOf(rs, id) == IF HasRoom(rs, id) THEN GetRoom(rs, id).bullets ELSE <<>>

Stayed == DOMAIN players \cap DOMAIN players'

\* C5, as claimed: whenever a hit lowers a target's hp, the shooter credited with
\* the hit has ammo > 0 at that moment.
C5_AmmoGateAtHit ==
    [][ \A i \in DOMAIN ev'.hits :
           ev'.hits[i].hpAfter < ev'.hits[i].hpBefore => ev'.hits[i].shooterAmmo > 0 ]_vars

\* C5, amended: the ammo gate is at the shot. A room gains a bullet only in a
\* shoot handler whose sender has ammo > 0, and the shot costs the sender one
\* ammo; hp goes down only in a tick, by a hit of a bullet that was in flight in
\* the target's room.
C5_AmmoGateAtShot ==
    [][ /\ \A i \in DOMAIN rooms' :
              Len(rooms'[i].bullets) > Len(BulletsOf(rooms, rooms'[i].id)) =>
                 /\ ev'.op = "shoot"
                 /\ ev'.who \in Stayed
                 /\ players[ev'.who].ammo > 0
                 /\ players'[ev'.who].ammo = players[ev'.who].ammo - 1
                 /\ rooms'[i].bullets[Len(rooms'[i].bullets)].shooterId = ev'.who
        /\ \A pid \in Stayed :
              players'[pid].hp < players[pid].hp =>
                 /\ ev'.op = "tick"
                 /\ \E i \in DOMAIN ev'.hits :
                       /\ ev'.hits[i].target = pid
                       /\ \E j \in DOMAIN BulletsOf(rooms, ev'.hits[i].room) :
                             BulletsOf(rooms, ev'.hits[i].room)[j].shooterId
                                = ev'.hits[i].shooter ]_vars

\* a shoot request of a player with no ammo left has passed the respawn and the
\* cooldown checks, and no bullet of that player left at that time
C5_Witness ==
    /\ ev.op = "shoot"
    /\ ev.who \in DOMAIN players
    /\ players[ev.who].ammo = 0
    /\ players[ev.who].lastShootAt = now
    /\ \A i \in DOMAIN rooms : \A j \in DOMAIN rooms[i].bullets :
          rooms[i].bullets[j].shooterId = ev.who =>
             rooms[i].bullets[j].expiresAt # now + BULLET_TTL_MS

Changed(p, q) == p.x # q.x \/ p.y # q.y \/ p.hp # q.hp \/ p.ammo # q.ammo

\* C6, as claimed: while a player's respawnAt is set and in the future, no handler
\* and no tick changes its position, hp or ammo; the only step that changes them
\* while respawnAt is set is the respawn of a tick at or after respawnAt.
C6_Freeze ==
    [][ \A pid \in Stayed :
           ( IsSome(players[pid].respawnAt) /\ Changed(players[pid], players'[pid]) )
           => ( ev'.op = "tick" /\ RespawnDue(players[pid], now) ) ]_vars

\* C7: for every player, hp = 0 implies respawnAt is set, and respawnAt set
\* implies hp = 0 and ammo = 0.
C7_DownIffRespawning ==
    \A pid \in DOMAIN players :
       /\ players[pid].hp = 0 => IsSome(players[pid].respawnAt)
       /\ IsSome(players[pid].respawnAt) => players[pid].hp = 0 /\ players[pid].ammo = 0

\* a tick's hit has just brought a player down: hp 0, no ammo, respawnAt set
C7_Witness ==
    /\ ev.op = "tick"
    /\ \E i \in DOMAIN ev.hits :
          /\ ev.hits[i].hpAfter = 0
          /\ ev.hits[i].target \in DOMAIN players
          /\ players[ev.hits[i].target].respawnAt = Some(now + RESPAWN_MS)
          /\ players[ev.hits[i].target].ammo = 0

-----------------------------------------------------------------------------
(* Properties of the movement.                                             *)

InArena(p) == 0 <= p.x /\ p.x <= MAP_W /\ 0 <= p.y /\ p.y <= MAP_H

\* C9: every player's position is inside the arena, 0 <= x <= MAP_W and
\* 0 <= y <= MAP_H, in every reachable state.
C9_InArena == \A pid \in DOMAIN players : InArena(players[pid])

\* a tick has just moved a player that walks down, by direction and by click
\* target, onto the bottom wall
C9_Witness ==
    /\ ev.op = "tick"
    /\ \E pid \in DOMAIN players :
          LET p == players[pid]
          IN /\ p.lastMoveAt = now
             /\ p.pendingMove = Some(Vec(0, 1))
             /\ IsSome(p.pendingTarget)
             /\ p.y = MAP_H

-----------------------------------------------------------------------------
(* Properties of createRoom and joinRoom.                                  *)

\* the room id a createRoom message ends up with
ChosenId(roomIdRaw) ==
    IF trim(roomIdRaw) # "" THEN trim(roomIdRaw) ELSE RoomIdPool[gens + 1]

\* C11, as claimed: a createRoom whose caller-supplied roomId is already in the
\* registry fails: the existing room keeps its configuration, member set and
\* bullets, and the requester's roomId is unchanged.
C11_ExistingIdFails ==
    [][ \A pid \in DOMAIN players, id \in RoomIdInputs, mp \in MaxPlayersInputs,
           tl \in TimeLimitInputs, pw \in PasswordInputs, sp \in LobbySpawnPts :
           ( /\ CreateRoom(pid, id, mp, tl, pw, sp)
             /\ trim(id) # ""
             /\ HasRoom(rooms, trim(id)) )
           => /\ HasRoom(rooms', trim(id))
              /\ GetRoom(rooms', trim(id)) = RoomOf(trim(id))
              /\ players'[pid].roomId = players[pid].roomId ]_vars

\* C12, as claimed: after a createRoom has been handled, whatever the creator's
\* prior state, the registry holds a room with the chosen id, its member set
\* holds the creator, and the creator's roomId is that id.
C12_CreatorInNewRoom ==
    [][ \A pid \in DOMAIN players, id \in RoomIdInputs, mp \in MaxPlayersInputs,
           tl \in TimeLimitInputs, pw \in PasswordInputs, sp \in LobbySpawnPts :
           CreateRoom(pid, id, mp, tl, pw, sp)
           => /\ HasRoom(rooms', ChosenId(id))
              /\ pid \in Members(GetRoom(rooms', ChosenId(id)))
              /\ players'[pid].roomId = Some(ChosenId(id)) ]_vars

\* the room has a password and the one supplied is another
WrongPassword(room, password) == room.passwordProtected /\ room.password # password

\* C13, as claimed: a joinRoom fails with the not-found error when the room id is
\* absent from the registry, and with the invalid-password error when the room
\* is password-protected and the supplied password differs; exactly one error
\* goes to the requester, nothing to anyone else, and no state changes.
C13_JoinErrors ==
    [][ \A pid \in DOMAIN players, id \in BlankJoinIdInputs, pw \in JoinPasswordInputs,
           sp \in LobbySpawnPts :
           JoinRoom(pid, id, pw, sp) =>
              /\ ~HasRoom(rooms, trim(id)) =>
                    /\ sent' = ErrorTo(pid, "Room not found.")
                    /\ rooms' = rooms /\ players' = players
              /\ ( /\ HasRoom(rooms, trim(id))
                   /\ WrongPassword(RoomOf(trim(id)), JoinPassword(pw)) ) =>
                    /\ sent' = ErrorTo(pid, "Invalid password.")
                    /\ rooms' = rooms /\ players' = players ]_vars

\* C13, amended: a joinRoom whose trimmed room id is empty is dropped: no message
\* is sent and no state changes. With a non-empty id it fails with the not-found
\* error when the id is absent from the registry, and with the invalid-password
\* error when the room is password-protected and the supplied password, after
\* the handler's trim, differs, whether the room is full or not; exactly one
\* error goes to the requester, nothing to anyone else, and no state changes.
C13_JoinErrorsWithId ==
    [][ \A pid \in DOMAIN players, id \in BlankJoinIdInputs, pw \in JoinPasswordInputs,
           sp \in LobbySpawnPts :
           JoinRoom(pid, id, pw, sp) =>
              /\ trim(id) = "" =>
                    /\ sent' = <<>>
                    /\ rooms' = rooms /\ players' = players
              /\ ( trim(id) # "" /\ ~HasRoom(rooms, trim(id)) ) =>
                    /\ sent' = ErrorTo(pid, "Room not found.")
                    /\ rooms' = rooms /\ players' = players
              /\ ( /\ HasRoom(rooms, trim(id))
                   /\ WrongPassword(RoomOf(trim(id)), JoinPassword(pw)) ) =>
                    /\ sent' = ErrorTo(pid, "Invalid password.")
                    /\ rooms' = rooms /\ players' = players ]_vars

\* a lobby player with the wrong password was just refused by a room that is
\* full as well
C13_Witness ==
    \E pid \in DOMAIN players :
        /\ ev.op = "joinRoom" /\ ev.who = pid
        /\ sent = ErrorTo(pid, "Invalid password.")
        /\ players[pid].roomId = None
        /\ \E i \in DOMAIN rooms : RoomIsFull(rooms[i])

\* a joinRoom step that passes the three checks of joinRoom
JoinThatPasses(pid, id, pw, sp) ==
    /\ JoinRoom(pid, id, pw, sp)
    /\ HasRoom(rooms, trim(id))
    /\ ~PasswordMismatch(RoomOf(trim(id)), JoinPassword(pw))
    /\ ~RoomIsFull(RoomOf(trim(id)))

\* C14, as claimed: a successful joinRoom leaves the player with roomId equal to
\* the target room, hp = 100, ammo = 20, respawnAt, pendingMove and
\* pendingTarget null, its id in the target room's member set and in no other,
\* and its previous room deleted if the player was its last member.
C14_JoinPostcondition ==
    [][ \A pid \in DOMAIN players, id \in JoinIdInputs, pw \in JoinPasswordInputs,
           sp \in LobbySpawnPts :
           JoinThatPasses(pid, id, pw, sp) =>
              /\ players'[pid].roomId = Some(trim(id))
              /\ players'[pid].hp = FULL_HP /\ players'[pid].ammo = FULL_AMMO
              /\ players'[pid].respawnAt = None
              /\ players'[pid].pendingMove = None /\ players'[pid].pendingTarget = None
              /\ MemberRooms(rooms', pid) = { trim(id) }
              /\ \A r \in RoomIds(rooms) \ { trim(id) } :
                    Members(RoomOf(r)) = {pid} => ~HasRoom(rooms', r) ]_vars

\* C15, as claimed: every room of the registry has at most maxPlayers members
\* (maxPlayers is in halves of a player).
C15_AtMostMaxPlayers ==
    \A i \in DOMAIN rooms : Halves(Len(rooms[i].playerIds)) <= rooms[i].maxPlayers

-----------------------------------------------------------------------------
(* Properties of hits, respawn and score.                                  *)

\* C16, as claimed: every hit of a tick lowers the target's hp by BULLET_DAMAGE
\* floored at 0; when the hp reaches 0 the target's deaths go up by 1, its score
\* down by DEATH_PENALTY, its ammo becomes 0, its respawnAt becomes now +
\* RESPAWN_MS and the shooter's kills go up by 1; when the hp stays above 0, the
\* target's deaths, respawnAt and ammo and the shooter's kills do not change.
C16_HitDamage ==
    [][ \A i \in DOMAIN ev'.hits :
           LET h == ev'.hits[i]
           IN /\ h.targetAfter.hp = Max(0, h.targetBefore.hp - BULLET_DAMAGE)
              /\ h.targetAfter.hp = 0 =>
                    /\ h.targetAfter.deaths = h.targetBefore.deaths + 1
                    /\ h.targetAfter.score = h.targetBefore.score - DEATH_PENALTY
                    /\ h.targetAfter.ammo = 0
                    /\ h.targetAfter.respawnAt = Some(now + RESPAWN_MS)
                    /\ IsSome(h.shooterBefore) /\ IsSome(h.shooterAfter)
                    /\ Val(h.shooterAfter).kills = Val(h.shooterBefore).kills + 1
              /\ h.targetAfter.hp > 0 =>
                    /\ h.targetAfter.deaths = h.targetBefore.deaths
                    /\ h.targetAfter.respawnAt = h.targetBefore.respawnAt
                    /\ h.targetAfter.ammo = h.targetBefore.ammo
                    /\ IsSome(h.shooterBefore) =>
                          Val(h.shooterAfter).kills = Val(h.shooterBefore).kills ]_vars

\* C18, as claimed: every hit of a tick whose shooter is connected raises the
\* shooter's score by 1, and by 1 more when it brings the target's hp to 0.
C18_HitBonus ==
    [][ \A i \in DOMAIN ev'.hits :
           LET h == ev'.hits[i]
           IN IsSome(h.shooterBefore) =>
                 Val(h.shooterAfter).score =
                    Val(h.shooterBefore).score + 1
                       + (IF h.targetAfter.hp = 0 THEN 1 ELSE 0) ]_vars

\* pid is in the member set of a registered room
IsMember(pid) == \E i \in DOMAIN rooms : pid \in SeqToSet(rooms[i].playerIds)

\* pid is in the member set of a registered room that the tick at time t simulates
IsMemberOfRunningRoom(pid, t) ==
    \E i \in DOMAIN rooms :
       /\ pid \in SeqToSet(rooms[i].playerIds)
       /\ ~rooms[i].ended
       /\ ~(rooms[i].endsAt > 0 /\ t >= rooms[i].endsAt)

\* the hits a tick applied to pid
HitsOn(e, pid) == {i \in DOMAIN e.hits : e.hits[i].target = pid /\ e.hits[i].applied}

-----------------------------------------------------------------------------
(* Properties of the movement intent.                                      *)

\* C19, as claimed: in every reachable state at most one of a player's
\* pendingMove and pendingTarget is set.
C19_OneIntent ==
    \A pid \in DOMAIN players :
       ~(IsSome(players[pid].pendingMove) /\ IsSome(players[pid].pendingTarget))

\* the sender of a move message that the claim has ignored: no room, or respawnAt
\* in the future
MustIgnoreMove(p, t) == p.roomId = None \/ (IsSome(p.respawnAt) /\ Val(p.respawnAt) > t)

\* a move message from such a sender changes neither its intents nor its position
MoveIgnored ==
    \A pid \in Stayed :
       ( ev'.op = "move" /\ ev'.who = pid /\ MustIgnoreMove(players[pid], now) ) =>
          /\ players'[pid].pendingMove = players[pid].pendingMove
          /\ players'[pid].pendingTarget = players[pid].pendingTarget
          /\ players'[pid].x = players[pid].x
          /\ players'[pid].y = players[pid].y

\* a tick leaves a player where it is, or at the spawn point of its respawn
NoWalkAtTick ==
    \A pid \in Stayed :
       ev'.op = "tick" =>
          \/ players'[pid].x = players[pid].x /\ players'[pid].y = players[pid].y
          \/ pid \in ev'.respawned /\ Vec(players'[pid].x, players'[pid].y) \in SpawnPts

\* C20, as claimed: a move message from a player in the lobby or in respawn-wait
\* leaves its pendingMove, pendingTarget and position unchanged and causes no
\* position change at a later tick: where such senders are the only ones that
\* send move messages, no tick makes a player walk.
C20_MoveRejected == [][ MoveIgnored /\ NoWalkAtTick ]_vars

\* the second half of C20 alone
C20_NoLaterWalk == [][ NoWalkAtTick ]_vars

-----------------------------------------------------------------------------
(* Properties of the shot and of the bullets.                              *)

\* C21: a shoot message changes the bullets of a room or lowers the sender's ammo
\* only if the sender has a roomId, is not in respawn-wait, has ammo > 0 and its
\* last shot is at least SHOOT_COOLDOWN_MS old; two bullets of one shooter are
\* created at least SHOOT_COOLDOWN_MS apart and no ammo is below 0.
C21_ShotGate ==
    [][ /\ \A pid \in Stayed :
              ( /\ ev'.op = "shoot" /\ ev'.who = pid
                /\ \/ players'[pid].ammo < players[pid].ammo
                   \/ \E i \in DOMAIN rooms' :
                         rooms'[i].bullets # BulletsOf(rooms, rooms'[i].id) )
              => /\ players[pid].roomId # None
                 /\ ~(IsSome(players[pid].respawnAt) /\ Val(players[pid].respawnAt) > now)
                 /\ players[pid].ammo > 0
                 /\ now - players[pid].lastShootAt >= SHOOT_COOLDOWN_MS
        /\ \A b \in AllBullets(rooms'), c \in AllBullets(rooms') :
              ( b # c /\ b.shooterId = c.shooterId ) =>
                 \/ b.expiresAt - c.expiresAt >= SHOOT_COOLDOWN_MS
                 \/ c.expiresAt - b.expiresAt >= SHOOT_COOLDOWN_MS
        /\ \A pid \in DOMAIN players' : players'[pid].ammo >= 0 ]_vars

\* a shot has just been fired while an earlier bullet of the same shooter is
\* still in flight
C21_Witness ==
    /\ ev.op = "shoot"
    /\ \E b \in AllBullets(rooms), c \in AllBullets(rooms) :
          /\ b.shooterId = ev.who /\ c.shooterId = ev.who
          /\ b.expiresAt = now + BULLET_TTL_MS
          /\ c.expiresAt < b.expiresAt

\* the bullet lies in the arena
BulletInArena(b) == 0 <= b.x /\ b.x <= MAP_W /\ 0 <= b.y /\ b.y <= MAP_H

\* C22, as claimed: after every tick no room of the registry holds a bullet whose
\* expiresAt is at or before the tick's now or whose position is outside the arena.
C22_NoStaleBullet ==
    [][ ev'.op = "tick" =>
           \A i \in DOMAIN rooms' : \A j \in DOMAIN rooms'[i].bullets :
              /\ rooms'[i].bullets[j].expiresAt > now
              /\ BulletInArena(rooms'[i].bullets[j]) ]_vars

\* C22, amended: after every tick no room that has not ended holds a bullet whose
\* expiresAt is at or before the tick's now, and no room at all holds a bullet
\* outside the arena; the bullets of a room that has ended stay as they are.
C22_NoStaleBulletInRunningRoom ==
    [][ ev'.op = "tick" =>
           /\ \A i \in DOMAIN rooms' : \A j \in DOMAIN rooms'[i].bullets :
                 /\ ~rooms'[i].ended => rooms'[i].bullets[j].expiresAt > now
                 /\ BulletInArena(rooms'[i].bullets[j])
           /\ \A i \in DOMAIN rooms' :
                 ( rooms'[i].ended /\ HasRoom(rooms, rooms'[i].id) ) =>
                    rooms'[i].bullets = BulletsOf(rooms, rooms'[i].id) ]_vars

\* a tick has just dropped one bullet that outlived its time and one that would
\* have left the arena
C22_Witness ==
    /\ ev.op = "tick"
    /\ \E i \in DOMAIN ev.gone : ev.gone[i].why = "expired"
    /\ \E i \in DOMAIN ev.gone : ev.gone[i].why = "outside"

-----------------------------------------------------------------------------
(* Properties of the chat.                                                 *)

\* the connections that a step sent a chat message to
ChatReceivers(out) == { out[i].to : i \in { j \in DOMAIN out : out[j].type = "chat" } }

\* C23, as claimed: a chat message from a player in a room goes to exactly the
\* members of that room, and one from a player in the lobby goes to exactly the
\* other lobby players.
C23_ChatDelivery ==
    [][ \A pid \in DOMAIN players, m \in ChatInputs :
           ( Chat(pid, m) /\ trim(m) # "" ) =>
              IF players[pid].roomId = None
              THEN ChatReceivers(sent') =
                      { q \in DOMAIN players : players[q].roomId = None } \ { pid }
              ELSE ChatReceivers(sent') =
                      { q \in DOMAIN players :
                          \E i \in DOMAIN rooms :
                             /\ rooms[i].id = Val(players[pid].roomId)
                             /\ q \in SeqToSet(rooms[i].playerIds) } ]_vars

\* the half of C23 that is about the players in a room
C23_RoomChatDelivery ==
    [][ \A pid \in DOMAIN players, m \in ChatInputs :
           ( Chat(pid, m) /\ trim(m) # "" /\ players[pid].roomId # None ) =>
              ChatReceivers(sent') =
                 { q \in DOMAIN players :
                     \E i \in DOMAIN rooms :
                        /\ rooms[i].id = Val(players[pid].roomId)
                        /\ q \in SeqToSet(rooms[i].playerIds) } ]_vars

-----------------------------------------------------------------------------
(* Properties of a room that has ended.                                    *)

\* the Room object that rooms holds at index i is still in the registry after
\* the step (a room created over its id is another object, created later)
SameRoomStays(i) ==
    /\ HasRoom(rooms', rooms[i].id)
    /\ GetRoom(rooms', rooms[i].id).createdAt = rooms[i].createdAt

\* C24: a room that has ended stays ended; a tick changes no member's position,
\* hp, ammo or respawnAt, leaves its bullets as they are and sends its members
\* no room state; and the room is deleted in the step in which its last member
\* leaves.
C24_EndedIsTerminal ==
    [][ \A i \in DOMAIN rooms :
           rooms[i].ended =>
              /\ SameRoomStays(i) => GetRoom(rooms', rooms[i].id).ended
              /\ ev'.op = "tick" =>
                    /\ SameRoomStays(i)
                    /\ GetRoom(rooms', rooms[i].id).bullets = rooms[i].bullets
                    /\ \A pid \in SeqToSet(rooms[i].playerIds) \cap Stayed :
                          /\ players'[pid].x = players[pid].x
                          /\ players'[pid].y = players[pid].y
                          /\ players'[pid].hp = players[pid].hp
                          /\ players'[pid].ammo = players[pid].ammo
                          /\ players'[pid].respawnAt = players[pid].respawnAt
                          /\ \A k \in DOMAIN sent' :
                                ~(sent'[k].to = pid /\ sent'[k].type = "room")
              /\ ( SeqToSet(rooms[i].playerIds) = { ev'.who } /\ rooms[i].id \in ev'.left )
                    => ~SameRoomStays(i) ]_vars

\* a tick has just passed over a room that ended at an earlier tick and that
\* holds a member and a bullet that has outlived its time
C24_Witness ==
    /\ ev.op = "tick"
    /\ ev.gone = <<>>
    /\ \E i \in DOMAIN rooms :
          /\ rooms[i].ended
          /\ rooms[i].endsAt < now
          /\ rooms[i].playerIds # <<>>
          /\ \E j \in DOMAIN rooms[i].bullets : rooms[i].bullets[j].expiresAt <= now

-----------------------------------------------------------------------------
(* Properties of the broadcasts.                                           *)

\* the rooms of a registry with their member sets
Membership(rs) == { << rs[i].id, SeqToSet(rs[i].playerIds) >> : i \in DOMAIN rs }

\* the rooms a lobby message lists, with the member sets it gives
ListedMembership(m) ==
    { << m.payload.rooms[k].id, SeqToSet(m.payload.rooms[k].players) >> :
         k \in DOMAIN m.payload.rooms }

\* the last message of a type, about room r if it is a room state, that a step
\* sent to a connection; none when there is no such message
LastSent(out, to, type, r) ==
    LET idx == { k \in DOMAIN out :
                   /\ out[k].to = to /\ out[k].type = type
                   /\ type = "room" => out[k].payload.roomId = r }
    IN IF idx = {} THEN None ELSE Some(out[CHOOSE k \in idx : \A j \in idx : j <= k])

\* the ids of the players a room state lists
ListedPlayers(m) == { m.payload.players[k].id : k \in DOMAIN m.payload.players }

-----------------------------------------------------------------------------
(* Properties of hp and ammo.                                              *)

\* C26: every player has 0 <= hp <= FULL_HP, hp a multiple of BULLET_DAMAGE, and
\* 0 <= ammo <= FULL_AMMO.
C26_HpAndAmmoInRange ==
    \A pid \in DOMAIN players :
       /\ 0 <= players[pid].hp /\ players[pid].hp <= FULL_HP
       /\ players[pid].hp % BULLET_DAMAGE = 0
       /\ 0 <= players[pid].ammo /\ players[pid].ammo <= FULL_AMMO

\* one player is one hit from going down while the other has spent ammo and has
\* been down before
C26_Witness ==
    \E pid \in DOMAIN players, q \in DOMAIN players :
       /\ players[pid].hp = BULLET_DAMAGE
       /\ players[q].ammo > 0 /\ players[q].ammo < FULL_AMMO
       /\ players[q].deaths > 0

-----------------------------------------------------------------------------
(* Properties of the team lobby.                                           *)

\* the sids of the connections whose close handler has run
ClosedSids == { SidPool[i] : i \in 1..lobby.opened } \ DOMAIN lobby.connections

\* C27: once the close handler of a connection has run, its sid is in the
\* players map of no room, and no room with zero players remains.
C27_ClosedSidInNoRoom ==
    /\ \A sid \in ClosedSids, i \in DOMAIN lobby.rooms :
          ~PlayersHas(lobby.rooms[i].players, sid)
    /\ ClosedSids # {} => \A i \in DOMAIN lobby.rooms : lobby.rooms[i].players # <<>>

\* the close handler takes the sid out of the room the connection's roomId
\* names, and deletes that room when it was the last entry
C27_CloseClearsNamedRoom ==
    [][\A c \in DOMAIN lobby.connections :
          (OnClose(c) /\ lobby.connections[c].roomId # None) =>
             LET id == Val(lobby.connections[c].roomId)
             IN /\ HasRoom(lobby'.rooms, id) =>
                      /\ ~PlayersHas(GetRoom(lobby'.rooms, id).players, c)
                      /\ GetRoom(lobby'.rooms, id).players # <<>>
                /\ ~HasRoom(lobby'.rooms, id) =>
                      PlayersDelete(GetRoom(lobby.rooms, id).players, c) = <<>>]_vars

-----------------------------------------------------------------------------
(* Properties of the hits.                                                 *)

\* the hp of a player when the tick moves the bullets: FULL_HP after a respawn of
\* this tick
HpBeforeHits(pid) == IF pid \in ev'.respawned THEN FULL_HP ELSE players[pid].hp

\* the end of the bullet's motion segment in this tick
BulletNext(b) ==
    Vec(b.x + (b.vx * DtMs(now, lastTickAt)) \div 1000,
        b.y + (b.vy * DtMs(now, lastTickAt)) \div 1000)

\* pid stands within hit distance of the segment and is neither the shooter, nor
\* down, nor waiting for its respawn
InReach(pid, b) ==
    /\ pid # b.shooterId
    /\ HpBeforeHits(pid) > 0
    /\ ~(IsSome(players[pid].respawnAt) /\ Val(players[pid].respawnAt) > now)
    /\ distPointToSegmentWithin(Vec(b.x, b.y), BulletNext(b),
                                Vec(players'[pid].x, players'[pid].y),
                                HIT_RADIUS + b.radius)

\* C28: a bullet is consumed by its first hit: in a tick over a room with one
\* bullet, at most one member loses hp, that member is the first in the order of
\* playerIds among those in reach, and the bullet is gone after the tick.
C28_FirstHitConsumes ==
    [][IsTickStep =>
         \A i \in DOMAIN rooms :
            Len(rooms[i].bullets) = 1 =>
               LET b == rooms[i].bullets[1]
                   ids == rooms[i].playerIds
                   reach == {k \in DOMAIN ids : ids[k] \in DOMAIN players /\ InReach(ids[k], b)}
                   hurt == {pid \in SeqToSet(ids) \cap DOMAIN players :
                               players'[pid].hp < HpBeforeHits(pid)}
               IN /\ Cardinality(hurt) <= 1
                  /\ \A pid \in hurt :
                        \E k \in reach : ids[k] = pid /\ \A j \in reach : k <= j
                  /\ hurt # {} => GetRoom(rooms', rooms[i].id).bullets = <<>>]_vars

\* a tick has hit the third connection, which joined first and stands farther
\* away, and has left the second, also in reach, at full hp
C28_Witness ==
    /\ ev.op = "tick" /\ Len(ev.hits) = 1
    /\ ev.hits[1].target = PlayerIdPool[3]
    /\ \E i \in DOMAIN rooms :
          rooms[i].playerIds = << PlayerIdPool[1], PlayerIdPool[3], PlayerIdPool[2] >>
    /\ players[PlayerIdPool[1]].x = SPAWN_MIN
    /\ players[PlayerIdPool[3]].hp = FULL_HP - BULLET_DAMAGE
    /\ players[PlayerIdPool[2]].hp = FULL_HP

\* C29: a tick takes no hp from a player that has no bullet of another shooter in
\* a room it is a member of (the shooter itself, a player outside the room), and
\* leaves the hp, the deaths and the respawnAt of a player that is down or waiting
\* for its respawn; in every step, deaths grows only where hp goes from a positive
\* value to 0.
C29_NoHitOnShooterDownOrOutsider ==
    [][/\ IsTickStep =>
            \A pid \in DOMAIN players :
               /\ (~\E i \in DOMAIN rooms :
                      /\ pid \in SeqToSet(rooms[i].playerIds)
                      /\ \E j \in DOMAIN rooms[i].bullets :
                            rooms[i].bullets[j].shooterId # pid)
                     => /\ players'[pid].hp >= HpBeforeHits(pid)
                        /\ players'[pid].deaths = players[pid].deaths
               /\ (/\ pid \notin ev'.respawned
                   /\ \/ players[pid].hp = 0
                      \/ IsSome(players[pid].respawnAt) /\ Val(players[pid].respawnAt) > now)
                     => /\ players'[pid].hp = players[pid].hp
                        /\ players'[pid].deaths = players[pid].deaths
                        /\ players'[pid].respawnAt = players[pid].respawnAt
       /\ \A pid \in DOMAIN players \cap DOMAIN players' :
             players'[pid].deaths > players[pid].deaths
                => HpBeforeHits(pid) > 0 /\ players'[pid].hp = 0]_vars

\* a tick has dropped a bullet that started within hit distance of its walking
\* shooter and passed the second connection, which is down, and has hit the third
C29_Witness ==
    /\ ev.op = "tick" /\ Len(ev.hits) = 1 /\ Len(ev.gone) = 1
    /\ ev.hits[1].target = PlayerIdPool[3]
    /\ LET b == ev.gone[1].bullet
       IN /\ players[b.shooterId].hp = FULL_HP
          /\ b.x - players[b.shooterId].x <= HIT_RADIUS + b.radius
    /\ players[PlayerIdPool[2]].hp = 0
    /\ players[PlayerIdPool[2]].roomId # None

-----------------------------------------------------------------------------
(* Properties of the bullets at the wall.                                  *)

\* the bullet's next position lies outside the arena
LeavesArena(b) ==
    \/ BulletNext(b).x < 0 \/ BulletNext(b).x > MAP_W
    \/ BulletNext(b).y < 0 \/ BulletNext(b).y > MAP_H

\* the tick drops the bullets of room i, all of them on their way out, and
\* changes no member's hp, ammo, respawnAt, deaths, kills or score
DroppedWithoutHit(i) ==
    (rooms[i].bullets # <<>> /\ \A j \in DOMAIN rooms[i].bullets : LeavesArena(rooms[i].bullets[j]))
       => /\ GetRoom(rooms', rooms[i].id).bullets = <<>>
          /\ \A pid \in SeqToSet(rooms[i].playerIds) \cap DOMAIN players :
                pid \notin ev'.respawned => Stats(players'[pid]) = Stats(players[pid])

\* C30 as claimed: in every room, a tick drops the bullets whose next position
\* lies outside the arena, those created at the wall among them, and applies no hit.
C30_OutsideIsDropped ==
    [][IsTickStep => \A i \in DOMAIN rooms : DroppedWithoutHit(i)]_vars

\* C30: in a room that has not ended and does not end in this tick, a tick drops
\* the bullets whose next position lies outside the arena, those created at the
\* wall among them, and applies no hit.
C30_OutsideIsDroppedInRunningRoom ==
    [][IsTickStep =>
         \A i \in DOMAIN rooms :
            (~rooms[i].ended /\ ~MatchOver(rooms[i], now)) => DroppedWithoutHit(i)]_vars

\* a tick has dropped a bullet that was created on the left wall while a member
\* other than the shooter, alive, stood within hit distance of its way out
C30_Witness ==
    /\ ev.op = "tick"
    /\ \E k \in DOMAIN ev.gone :
          LET b == ev.gone[k].bullet
          IN /\ ev.gone[k].why = "outside"
             /\ b.x = 0 /\ b.vx < 0
             /\ \E pid \in DOMAIN players :
                   /\ pid # b.shooterId
                   /\ players[pid].roomId = Some(ev.gone[k].room)
                   /\ players[pid].hp = FULL_HP
                   /\ distPointToSegmentWithin(
                         Vec(b.x, b.y),
                         Vec(b.x + (b.vx * TICK_MS) \div 1000, b.y + (b.vy * TICK_MS) \div 1000),
                         Vec(players[pid].x, players[pid].y), HIT_RADIUS + b.radius)

-----------------------------------------------------------------------------
(* Properties of the click move.                                           *)

\* pid is moved by this tick: it is a member of a room that has not ended and
\* does not end now, and it is not down
Walks(pid) ==
    /\ players[pid].respawnAt = None
    /\ \E i \in DOMAIN rooms :
          /\ pid \in SeqToSet(rooms[i].playerIds)
          /\ ~rooms[i].ended /\ ~MatchOver(rooms[i], now)

\* where the dir move of this tick leaves pid, before the click move
AfterDirMove(pid) ==
    IF players[pid].pendingMove = None THEN Vec(players[pid].x, players[pid].y)
    ELSE Vec(clamp(players[pid].x + Val(players[pid].pendingMove).x * MOVE_SPEED, 0, MAP_W),
             clamp(players[pid].y + Val(players[pid].pendingMove).y * MOVE_SPEED, 0, MAP_H))

\* the distance between two points that lie on one horizontal or vertical line
AxisDist(a, b) == Abs(a.x - b.x) + Abs(a.y - b.y)

\* C31: in a tick, a player whose remaining distance to pendingTarget is at most
\* 1 stands on the target afterwards and has no pendingTarget; otherwise it has
\* come closer by min(MOVE_SPEED, remaining distance) and keeps its pendingTarget.
C31_ClickMoveSnaps ==
    [][IsTickStep =>
         \A pid \in DOMAIN players :
            (Walks(pid) /\ players[pid].pendingTarget # None) =>
               LET tg == Val(players[pid].pendingTarget)
                   rem == AxisDist(AfterDirMove(pid), tg)
                   at == Vec(players'[pid].x, players'[pid].y)
               IN IF rem <= 1
                  THEN at = tg /\ players'[pid].pendingTarget = None
                  ELSE /\ AxisDist(at, tg) = rem - Min(MOVE_SPEED, rem)
                       /\ players'[pid].pendingTarget = Some(tg)]_vars

\* what the tick does do: at a remaining distance of at most 1 it clears the
\* pendingTarget and leaves the player where it is; otherwise the player comes
\* closer by min(MOVE_SPEED, remaining distance)
C31_ClickMoveStops ==
    [][IsTickStep =>
         \A pid \in DOMAIN players :
            (Walks(pid) /\ players[pid].pendingTarget # None) =>
               LET tg == Val(players[pid].pendingTarget)
                   rem == AxisDist(AfterDirMove(pid), tg)
                   at == Vec(players'[pid].x, players'[pid].y)
               IN IF rem <= 1
                  THEN at = AfterDirMove(pid) /\ players'[pid].pendingTarget = None
                  ELSE /\ AxisDist(at, tg) = rem - Min(MOVE_SPEED, rem)
                       /\ players'[pid].pendingTarget = Some(tg)]_vars

\* C40: a target-point move completes: every tick either clears the pendingTarget
\* of a player it moves, within distance 1 of the target, or brings the player
\* closer to the target than it was before the tick.
C40_TargetGetsCloser ==
    [][IsTickStep =>
         \A pid \in DOMAIN players :
            (Walks(pid) /\ players[pid].pendingTarget # None) =>
               LET tg == Val(players[pid].pendingTarget)
                   at == Vec(players'[pid].x, players'[pid].y)
               IN \/ players'[pid].pendingTarget = None /\ AxisDist(at, tg) <= 1
                  \/ AxisDist(at, tg) < AxisDist(Vec(players[pid].x, players[pid].y), tg)]_vars

\* the same for a player that has no pendingMove
C40_TargetGetsCloserWithoutDir ==
    [][IsTickStep =>
         \A pid \in DOMAIN players :
            (Walks(pid) /\ players[pid].pendingTarget # None
                        /\ players[pid].pendingMove = None) =>
               LET tg == Val(players[pid].pendingTarget)
                   at == Vec(players'[pid].x, players'[pid].y)
               IN \/ players'[pid].pendingTarget = None /\ AxisDist(at, tg) <= 1
                  \/ AxisDist(at, tg) < AxisDist(Vec(players[pid].x, players[pid].y), tg)]_vars

-----------------------------------------------------------------------------
(* Properties of the two registries together.                              *)

\* C36: for every player p and room id r, p.roomId = r exactly when the registry
\* holds a room with id r whose member list holds p, and every id in a member list
\* is the id of a player.
C36_RoomIdAgrees ==
    /\ \A pid \in DOMAIN players, r \in RoomIds(rooms) \cup { "r1", "g1" } :
          players[pid].roomId = Some(r)
             <=> (HasRoom(rooms, r) /\ pid \in SeqToSet(GetRoom(rooms, r).playerIds))
    /\ \A i \in DOMAIN rooms : SeqToSet(rooms[i].playerIds) \subseteq DOMAIN players

\* one direction: a room lists only players that exist and whose roomId is its id
C36_MembersPointAtRoom ==
    \A i \in DOMAIN rooms : \A pid \in SeqToSet(rooms[i].playerIds) :
       pid \in DOMAIN players /\ players[pid].roomId = Some(rooms[i].id)

-----------------------------------------------------------------------------
(* Properties of the bullets and their shooters.                           *)

\* C37: every bullet in a room's bullet list has a shooterId that is in the
\* room's member list.
C37_BulletsOfMembers ==
    \A i \in DOMAIN rooms : \A j \in DOMAIN rooms[i].bullets :
       rooms[i].bullets[j].shooterId \in SeqToSet(rooms[i].playerIds)

\* C37, the consequence: a bullet that registers a hit lowers the target's hp.
C37_HitLowersHp ==
    \A k \in DOMAIN ev.hits : ev.hits[k].hpAfter < ev.hits[k].hpBefore

-----------------------------------------------------------------------------
(* Properties of the score.                                                *)

-----------------------------------------------------------------------------
(* Properties of the cost of a shot.                                       *)

\* the bullets of shooter pid in the rooms rs
BulletCount(rs, pid) ==
    LET Own(i) == SelectSeq(rs[i].bullets, LAMBDA b : b.shooterId = pid)
    IN IF rs = <<>> THEN 0
       ELSE Len(Own(1)) + (IF Len(rs) > 1 THEN Len(Own(2)) ELSE 0)

\* C39: a shoot message that lowers the sender's ammo by 1 adds exactly one bullet
\* of the sender, and a shoot message that adds no bullet leaves the sender's ammo
\* and lastShootAt unchanged.
C39_AmmoOnlyForBullets ==
    [][\A pid \in DOMAIN players :
          (ev'.op = "shoot" /\ ev'.who = pid) =>
             /\ players'[pid].ammo = players[pid].ammo - 1
                   => BulletCount(rooms', pid) = BulletCount(rooms, pid) + 1
             /\ BulletCount(rooms', pid) = BulletCount(rooms, pid)
                   => /\ players'[pid].ammo = players[pid].ammo
                      /\ players'[pid].lastShootAt = players[pid].lastShootAt]_vars

\* the converse: a shoot message that adds a bullet adds one, takes one ammo and
\* sets lastShootAt to now
C39_BulletCostsAmmo ==
    [][\A pid \in DOMAIN players :
          (ev'.op = "shoot" /\ ev'.who = pid
              /\ BulletCount(rooms', pid) # BulletCount(rooms, pid)) =>
             /\ BulletCount(rooms', pid) = BulletCount(rooms, pid) + 1
             /\ players'[pid].ammo = players[pid].ammo - 1
             /\ players'[pid].lastShootAt = now]_vars

-----------------------------------------------------------------------------
(* Properties of the teams.                                                *)

\* the entries of a players map that are on the team, not counting sid
OnTeam(ps, team, sid) == { i \in DOMAIN ps : ps[i].team = Some(team) /\ ps[i].sid # sid }

\* C32: every room has at most maxRoomPlayers players and at most maxTeamPlayers
\* on team A and on team B, and a SET_TEAM for a team that has maxTeamPlayers
\* other players sends TEAM_FULL to the requester, nothing else, and leaves the
\* rooms as they are.
C32_RoomAndTeamsBounded ==
    [][/\ \A i \in DOMAIN lobby'.rooms :
             /\ Len(lobby'.rooms[i].players) <= maxRoomPlayers
             /\ Cardinality(OnTeam(lobby'.rooms[i].players, "A", "")) <= maxTeamPlayers
             /\ Cardinality(OnTeam(lobby'.rooms[i].players, "B", "")) <= maxTeamPlayers
       /\ \A c \in DOMAIN lobby.connections, team \in { "A", "B" } :
             ( /\ SET_TEAM(c, Some(team))
               /\ lobby.connections[c].hasHello
               /\ lobby.connections[c].roomId # None
               /\ HasRoom(lobby.rooms, Val(lobby.connections[c].roomId))
               /\ PlayersHas(GetRoom(lobby.rooms, Val(lobby.connections[c].roomId)).players, c)
               /\ Cardinality(OnTeam(GetRoom(lobby.rooms,
                                             Val(lobby.connections[c].roomId)).players,
                                     team, c)) >= maxTeamPlayers )
             => /\ lobby'.out = << Msg(c, "ERROR", [ code |-> "TEAM_FULL" ]) >>
                /\ lobby'.rooms = lobby.rooms
                /\ lobby'.connections = lobby.connections]_vars

\* the room holds maxRoomPlayers players while a ninth connection is open, team
\* A is full and a fifth member, who is not on it, has just been told TEAM_FULL
C32_Witness ==
    /\ \E i \in DOMAIN lobby.rooms :
          /\ Len(lobby.rooms[i].players) = maxRoomPlayers
          /\ Cardinality(OnTeam(lobby.rooms[i].players, "A", "")) = maxTeamPlayers
    /\ lobby.opened = Len(SidPool)
    /\ \E c \in DOMAIN lobby.connections :
          /\ lobby.out = << Msg(c, "ERROR", [ code |-> "TEAM_FULL" ]) >>
          /\ \E i \in DOMAIN lobby.rooms :
                PlayersGet(lobby.rooms[i].players, c).team # Some("A")

-----------------------------------------------------------------------------
(* Properties of the hitscan server and of the cooldown server.            *)

\* the step is a tick of the hitscan server
HitscanIsTick ==
    HitscanTick([id \in DOMAIN hitscan.players |-> HitscanSpawn(id)], MaxHitscanTicks)

\* the step is a shoot message or a tick of the hitscan server
HitscanShootOrTick ==
    \/ \E pid \in DOMAIN hitscan.players, input \in HitscanShots : HitscanShoot(pid, input)
    \/ HitscanIsTick

\* the members of the ended rooms keep hp, score, kills, deaths and respawnAt
EndedMembersKeep ==
    \A i \in DOMAIN hitscan.rooms :
       hitscan.rooms[i].ended =>
          \A pid \in SeqToSet(hitscan.rooms[i].playerIds) \cap DOMAIN hitscan.players :
             /\ hitscan'.players[pid].hp >= hitscan.players[pid].hp
             /\ hitscan'.players[pid].score = hitscan.players[pid].score
             /\ hitscan'.players[pid].kills = hitscan.players[pid].kills
             /\ hitscan'.players[pid].deaths = hitscan.players[pid].deaths
             /\ hitscan'.players[pid].respawnAt = hitscan.players[pid].respawnAt

\* C33: once a room of the hitscan server has ended, no shoot message and no
\* tick lowers the hp of a member or changes its score, kills, deaths or
\* respawnAt.
C33_EndedRoomIsFrozen == [][HitscanShootOrTick => EndedMembersKeep]_vars

\* what the code does: the tick leaves the members of an ended room alone
C33_TickLeavesEndedRoom == [][HitscanIsTick => EndedMembersKeep]_vars

\* the rooms of the cooldown server that list the id
ListedIn(id) ==
    { i \in DOMAIN cooldown.rooms : id \in SeqToSet(cooldown.rooms[i].players) }

\* C34: in the cooldown server each player id is in the players list of at most
\* one room, and a player whose roomId is r is listed in no room other than r.
C34_OneRoomPerPlayer ==
    \A id \in SeqToSet(CooldownIdPool) :
       /\ Cardinality(ListedIn(id)) <= 1
       /\ id \in DOMAIN cooldown.players =>
             \A i \in ListedIn(id) :
                cooldown.players[id].roomId # None =>
                   cooldown.rooms[i].id = Val(cooldown.players[id].roomId)

\* the room ids of the last lobby message to k among the messages; the empty
\* set when there is none
LastLobbyIds(out, k) ==
    LET at == { i \in DOMAIN out : out[i].to = k /\ out[i].type = "lobby" }
    IN IF at = {} THEN {}
       ELSE LET last == CHOOSE i \in at : \A j \in at : j <= i
            IN { out[last].payload.rooms[n].id : n \in DOMAIN out[last].payload.rooms }

\* c sends leaveRoom as the last member of the registered room r
LastMemberLeaves(c, r) ==
    /\ CooldownLeaveRoom(c)
    /\ cooldown.players[c].roomId = Some(r)
    /\ HasRoom(cooldown.rooms, r)
    /\ SeqToSet(GetRoom(cooldown.rooms, r).players) = {c}

\* C35: when the last member leaves a room of the cooldown server with a
\* leaveRoom message, the room is deleted, and the last lobby message of the
\* handler to each connected client does not list the room.
C35_LastLeaveUnlistsRoom ==
    [][\A c \in DOMAIN cooldown.players, r \in CooldownRoomIds :
          LastMemberLeaves(c, r) =>
             /\ ~HasRoom(cooldown'.rooms, r)
             /\ \A k \in DOMAIN cooldown'.players : r \notin LastLobbyIds(cooldown'.out, k)]_vars

\* what the code does: the room is deleted and the leaver's lobby message does
\* not list it
C35_LastLeaveDeletesRoom ==
    [][\A c \in DOMAIN cooldown.players, r \in CooldownRoomIds :
          LastMemberLeaves(c, r) =>
             /\ ~HasRoom(cooldown'.rooms, r)
             /\ r \notin LastLobbyIds(cooldown'.out, c)]_vars

====
